---- MODULE Spec2Model ----
(***************************************************************************)
(* Diagnostic reasoning core of ai-ros: the single-unit diagnoser          *)
(* (app/diagnostics/diagnostic_service.py over the fault trees of          *)
(* app/diagnostics/fault_tree.py) and the fleet diagnoser                  *)
(* (app/services/fleet_diagnostic_service.py over app/models/fleet.py).    *)
(*                                                                         *)
(* Conventions                                                             *)
(*  - A Python dict with string keys is a TLA+ record; "key in d" is       *)
(*    key \in DOMAIN d, and d[key] on a missing key is a KeyError.         *)
(*  - A raised exception is the value Raise(name) in place of the result.  *)
(*  - Optional[T] is a sequence of length 0 (None) or 1 (the value).       *)
(*  - A probability is an integer count of 1/ProbScale, so that the        *)
(*    products p * 1.2 * 1.3 * 1.3 * 1.4 of the code are exact.            *)
(*  - An occurrence rate is a fraction <<n, d>> in lowest terms.           *)
(*  - "kw in text.lower()" is KeywordsIn(text), the table of the keywords  *)
(*    each string of the model's universe contains.                        *)
(***************************************************************************)
EXTENDS Integers, Sequences, FiniteSets, TLC

VARIABLES
    FAULT_TREES,     \* fault_tree.py: the module-level knowledge base
    error_codes,     \* request: the list of error codes to diagnose
    runtime_state,   \* request: Optional[RuntimeState] (live signals)
    diag_result,     \* what the last diagnostic call returned (or raised)
    fleet_state,     \* request: FleetState.robots
    fleet_result,    \* what the last fleet call returned
    set_order,       \* the order in which this process iterates a set of strings
    search_results,  \* query: what the database returned for the query itself
    error_results,   \* query: what it returned for the error-code searches
    query_history,   \* the database's table of answered queries
    query_result,    \* what the last query call returned
    snapshot_module, \* the snapshot API that is mounted: snapshot_ingestion or snapshot
    snapshot_store,  \* that module's snapshot_store list
    background_tasks,\* per accepted request, its BackgroundTasks not yet finished
    snapshot_response, \* what the last snapshot request returned
    op               \* the operation that produced the result

query_vars == <<search_results, error_results, query_history, query_result>>

snapshot_vars == <<snapshot_module, snapshot_store, background_tasks, snapshot_response>>

vars == <<FAULT_TREES, error_codes, runtime_state, diag_result,
          fleet_state, fleet_result, set_order, query_vars, snapshot_vars, op>>

-----------------------------------------------------------------------------
(* Generic helpers: Python built-ins used by the code.                       *)

None == <<>>

Some(x) == <<x>>

Raise(name) == [exception |-> name]

Raised(r) == "exception" \in DOMAIN r

Range(s) == {s[i] : i \in 1..Len(s)}

Min(a, b) == IF a <= b THEN a ELSE b

Max(a, b) == IF a >= b THEN a ELSE b

\* A list comprehension, built once as a list of values.
List(f) == f \o <<>>

\* s[:n]
Take(s, n) == SubSeq(s, 1, Min(n, Len(s)))

\* All sequences over S of length 0..n.
SeqsUpTo(S, n) == UNION {[1..k -> S] : k \in 0..n}

\* sorted(s, key=..., reverse=True), with KeyGT(a, b) for key(a) > key(b).
\* Python's sort is stable, and stays stable under reverse=True, so elements
\* with equal keys keep their order in s.
SortedDesc(s, KeyGT(_, _)) ==
    LET n == Len(s)
        pos(i) == 1 + Cardinality({j \in 1..n :
                        \/ KeyGT(s[j], s[i])
                        \/ (~KeyGT(s[i], s[j]) /\ j < i)})
        place == List([i \in 1..n |-> pos(i)])
    IN  List([p \in 1..n |-> s[CHOOSE i \in 1..n : place[i] = p]])

\* The same for a key that is a number.
SortedDescBy(s, Key(_)) ==
    LET keys == List([i \in 1..Len(s) |-> [key |-> Key(s[i]), value |-> s[i]]])
        KeyGT(a, b) == a.key > b.key
        sorted == SortedDesc(keys, KeyGT)
    IN  List([p \in 1..Len(s) |-> sorted[p].value])

\* Index of max(s, key=Key): the first element whose key is maximal.
FirstMaxIndex(s, Key(_)) ==
    LET keys == List([i \in 1..Len(s) |-> Key(s[i])]) IN
    CHOOSE i \in 1..Len(s) :
        /\ \A j \in 1..Len(s) : keys[j] <= keys[i]
        /\ \A j \in 1..(i - 1) : keys[j] < keys[i]

\* len([x for x in s if Test(x)])
Count(s, Test(_)) == Len(SelectSeq(s, Test))

-----------------------------------------------------------------------------
(* Rates and confidences: exact fractions <<n, d>>, d > 0, in lowest terms.  *)
(* A quotient of two small counts and the literals 0.2, 0.3, 0.4, 0.5 round  *)
(* to the same double exactly when the fractions are equal, so the code's    *)
(* float comparisons are the comparisons of the fractions.                   *)

RECURSIVE GCD(_, _)
GCD(a, b) == IF b = 0 THEN a ELSE GCD(b, a % b)

Frac(n, d) == IF n = 0 THEN <<0, 1>> ELSE <<n \div GCD(n, d), d \div GCD(n, d)>>

\* A literal with one decimal: Dec(4) is 0.4.
Dec(t) == Frac(t, 10)

FracGE(x, y) == x[1] * y[2] >= y[1] * x[2]

FracGT(x, y) == x[1] * y[2] > y[1] * x[2]

FracMin(x, y) == IF FracGE(y, x) THEN x ELSE y

\* a/10 + rate * b/10
Affine(a, rate, b) == Frac(a * rate[2] + b * rate[1], 10 * rate[2])

\* "num / den if den > 0 else 0"
SafeRate(num, den) == IF den > 0 THEN Frac(num, den) ELSE Frac(0, 1)

-----------------------------------------------------------------------------
(* Probabilities                                                             *)

ProbScale == 10 * 10 * 10 * 10 * 10

\* A literal with one decimal, such as 0.6, given as its count of tenths.
Tenths(t) == t * (ProbScale \div 10)

\* p *= b/10 for the boosts 1.2, 1.3, 1.4 (b = 12, 13, 14).
Times(p, b) == (p * b) \div 10

-----------------------------------------------------------------------------
(* fault_tree.py                                                             *)

\* "kw in text.lower()" for the keywords the code looks for.
KeywordsIn(text) ==
    CASE text = "Safety laser scanner detected obstacle in protection field" -> {"laser"}
      [] text = "Emergency stop button pressed" -> {"emergency", "stop"}
      [] text = "Software joint limit exceeded due to incorrect parameters" -> {"joint"}
      [] text = "Joint calibration incorrect or lost" -> {"joint"}
      [] text = "Battery charge level critically low" -> {"battery"}
      [] text = "Battery cell or management system fault" -> {"battery"}
      [] text = "/laser_scan" -> {"laser"}
      [] text = "/battery_state" -> {"battery"}
      [] text = "emergency_stop" -> {"emergency", "stop"}
      [] text = "position_x" -> {"position"}
      [] text = "joint_1" -> {"joint"}
      [] text = "safety" -> {"safety"}
      [] OTHER -> {}

FaultCause(id, description, check, tenths) ==
    [id |-> id, description |-> description, check |-> check,
     probability |-> Tenths(tenths)]

FaultTreeE201 ==
    [error_code |-> "E201",
     description |-> "Safety stop active - All movement inhibited",
     category |-> "safety",
     severity |-> "high",
     causes |-> <<
        FaultCause("laser_triggered",
                   "Safety laser scanner detected obstacle in protection field",
                   "Check laser scanner field status and clear any obstacles", 6),
        FaultCause("emergency_stop_pressed",
                   "Emergency stop button pressed",
                   "Inspect all physical emergency stop buttons and release if pressed", 3),
        FaultCause("safety_plc_fault",
                   "Safety PLC not in ready state",
                   "Verify safety PLC status LEDs and reset if necessary", 2),
        FaultCause("safety_gate_open",
                   "Safety gate or door interlock open",
                   "Ensure all safety gates are properly closed", 4) >>,
     recovery_steps |-> <<"Clear any obstacles from safety zones",
                          "Reset emergency stop buttons",
                          "Cycle safety PLC power",
                          "Perform safety system test">>]

FaultTreeE301 ==
    [error_code |-> "E301",
     description |-> "Joint limit violation - Joint position exceeds allowed range",
     category |-> "motion",
     severity |-> "medium",
     causes |-> <<
        FaultCause("software_limit_exceeded",
                   "Software joint limit exceeded due to incorrect parameters",
                   "Check joint limit parameters in configuration files", 5),
        FaultCause("hardware_limit_triggered",
                   "Hardware limit switch triggered",
                   "Inspect physical limit switches and wiring", 4),
        FaultCause("calibration_error",
                   "Joint calibration incorrect or lost",
                   "Re-calibrate joint zero position", 3),
        FaultCause("controller_fault",
                   "Motion controller internal error",
                   "Check controller error logs and reset", 2) >>,
     recovery_steps |-> <<"Move joint to safe position manually",
                          "Verify and adjust joint limits",
                          "Re-calibrate joint",
                          "Reset motion controller">>]

FaultTreeE101 ==
    [error_code |-> "E101",
     description |-> "ROS master connection failure",
     category |-> "communication",
     severity |-> "high",
     causes |-> <<
        FaultCause("network_issue",
                   "Network connectivity problem",
                   "Check network cables, switches, and firewall settings", 6),
        FaultCause("master_not_running",
                   "ROS master process not running",
                   "Verify roscore is running on the correct machine", 5),
        FaultCause("host_config_error",
                   "Incorrect hostname or IP configuration",
                   "Check ROS_MASTER_URI and /etc/hosts configuration", 4),
        FaultCause("port_blocked",
                   "Required ports blocked by firewall",
                   "Ensure ports 11311 (ROS master) are open", 3) >>,
     recovery_steps |-> <<"Restart roscore on master machine",
                          "Verify network connectivity",
                          "Check ROS environment variables",
                          "Restart affected nodes">>]

FaultTreeE102 ==
    [error_code |-> "E102",
     description |-> "ROS node initialization failure",
     category |-> "system",
     severity |-> "medium",
     causes |-> <<
        FaultCause("parameter_error",
                   "Required parameters missing or invalid",
                   "Check launch files and parameter server", 5),
        FaultCause("resource_conflict",
                   "Resource conflict (port, device, file)",
                   "Check for duplicate node names or resource usage", 4),
        FaultCause("dependency_missing",
                   "Required dependency or package not available",
                   "Verify all ROS packages are installed and sourced", 3),
        FaultCause("permission_issue",
                   "Permission denied for required resources",
                   "Check file permissions and user privileges", 2) >>,
     recovery_steps |-> <<"Verify parameter values",
                          "Check for naming conflicts",
                          "Install missing dependencies",
                          "Adjust permissions">>]

FaultTreeW001 ==
    [error_code |-> "W001",
     description |-> "Low battery warning",
     category |-> "power",
     severity |-> "low",
     causes |-> <<
        FaultCause("battery_depleted",
                   "Battery charge level critically low",
                   "Check battery voltage and state of charge", 8),
        FaultCause("charging_fault",
                   "Charger not functioning properly",
                   "Verify charger connection and output", 3),
        FaultCause("battery_fault",
                   "Battery cell or management system fault",
                   "Check battery management system diagnostics", 2),
        FaultCause("high_power_drain",
                   "Excessive power consumption",
                   "Monitor current draw during operation", 4) >>,
     recovery_steps |-> <<"Connect to charger immediately",
                          "Reduce power consumption",
                          "Check charging system",
                          "Replace battery if necessary">>]

\* The value of FAULT_TREES once the module is imported.
LoadedFaultTrees ==
    [c \in {"E201", "E301", "E101", "E102", "W001"} |->
        CASE c = "E201" -> FaultTreeE201
          [] c = "E301" -> FaultTreeE301
          [] c = "E101" -> FaultTreeE101
          [] c = "E102" -> FaultTreeE102
          [] c = "W001" -> FaultTreeW001]

\* Mutant: a lookup that falls back to a default tree.
get_fault_tree_default(error_code) ==
    IF error_code \in DOMAIN FAULT_TREES
    THEN Some(FAULT_TREES[error_code])
    ELSE Some(FAULT_TREES["E201"])

\* FAULT_TREES.get(error_code): None for a code that is no key.
get_fault_tree(error_code) ==
    IF error_code \in DOMAIN FAULT_TREES
    THEN Some(FAULT_TREES[error_code])
    ELSE None

-----------------------------------------------------------------------------
(* diagnostic_service.py: DiagnosticService                                  *)

\* any(kw in x.lower() for x in xs), xs a list or the keys of a dict
AnyContains(kw, xs) == \E x \in xs : kw \in KeywordsIn(x)

\* Mutant: the upper limit of the clamp is missing.
Clamp_LowerOnly(p) == Max(p, Tenths(1))

\* min(max(adjusted_probability, 0.1), 0.9)
Clamp(p) == Min(Max(p, Tenths(1)), Tenths(9))

\* The adjusted probability of one cause (the loop body, lines 83-108).
AdjustedProbability(cause, rs) ==
    LET desc   == KeywordsIn(cause.description)
        topics == Range(rs.active_topics)
        keys   == DOMAIN rs.parameters
        p0 == cause.probability
        p1 == IF /\ rs.active_topics # <<>>
                 /\ "laser" \in desc
                 /\ AnyContains("laser", topics)
              THEN Times(p0, 13) ELSE p0
        p2 == IF /\ rs.active_topics # <<>>
                 /\ "battery" \in desc
                 /\ AnyContains("battery", topics)
              THEN Times(p1, 12) ELSE p1
        p3 == IF /\ keys # {}
                 /\ "emergency" \in desc
                 /\ (AnyContains("emergency", keys) \/ AnyContains("stop", keys))
              THEN Times(p2, 14) ELSE p2
        p4 == IF /\ keys # {}
                 /\ "joint" \in desc
                 /\ (AnyContains("joint", keys) \/ AnyContains("position", keys))
              THEN Times(p3, 13) ELSE p3
    IN  Clamp(p4)

AdjustedKey(cause) == cause.adjusted_probability

_adjust_probabilities_with_runtime(diagnosis, rs) ==
    LET causes == diagnosis.possible_causes
        adjusted_causes ==
            List([i \in 1..Len(causes) |->
                [causes[i] EXCEPT
                    !.adjusted_probability = AdjustedProbability(causes[i], rs)]])
    IN  [diagnosis EXCEPT
            !.possible_causes = SortedDescBy(adjusted_causes, AdjustedKey)]
        @@ [runtime_enhanced |-> TRUE]

\* runtime_state is Optional: None, or <<rs>>.  "if runtime_state:" is true
\* of every RuntimeState object (a pydantic model defines no __bool__).
diagnose_single_error(error_code, rs_opt) ==
    LET tree_opt == get_fault_tree(error_code) IN
    IF tree_opt = None
    THEN [error_code |-> error_code,
          status |-> "unknown",
          message |-> "No diagnostic tree available for error",
          suggested_action |-> "Check system logs and documentation"]
    ELSE LET tree == tree_opt[1]
             result ==
                [error_code |-> error_code,
                 status |-> "diagnosed",
                 description |-> tree.description,
                 category |-> tree.category,
                 severity |-> tree.severity,
                 possible_causes |->
                    List([i \in 1..Len(tree.causes) |->
                        [id |-> tree.causes[i].id,
                         description |-> tree.causes[i].description,
                         check |-> tree.causes[i].check,
                         probability |-> tree.causes[i].probability,
                         adjusted_probability |-> tree.causes[i].probability]]),
                 recovery_steps |-> tree.recovery_steps]
         IN  IF rs_opt # None
             THEN _adjust_probabilities_with_runtime(result, rs_opt[1])
             ELSE result

\* severity_order.get(d.get("severity", "low"), 0)
SeverityRank(d) ==
    LET sev == IF "severity" \in DOMAIN d THEN d.severity ELSE "low" IN
    CASE sev = "high" -> 3
      [] sev = "medium" -> 2
      [] sev = "low" -> 1
      [] OTHER -> 0

\* Mutant: among equal ranks the last diagnosis wins.
PrimaryIndex_LastMax(diagnoses) ==
    CHOOSE i \in 1..Len(diagnoses) :
        /\ \A j \in 1..Len(diagnoses) : SeverityRank(diagnoses[j]) <= SeverityRank(diagnoses[i])
        /\ \A j \in (i + 1)..Len(diagnoses) :
              SeverityRank(diagnoses[j]) < SeverityRank(diagnoses[i])

\* max(diagnoses, key=...): the index of the primary diagnosis.
PrimaryIndex(diagnoses) == FirstMaxIndex(diagnoses, SeverityRank)

\* combined_causes: the causes of every diagnosis that has "possible_causes",
\* each with the place <<i, j>> of the dict it is (the dicts are shared with
\* the individual diagnoses, not copied).
RECURSIVE CombinedCauses(_, _)
CombinedCauses(diagnoses, i) ==
    IF i > Len(diagnoses) THEN <<>>
    ELSE (IF "possible_causes" \in DOMAIN diagnoses[i]
          THEN List([j \in 1..Len(diagnoses[i].possible_causes) |->
                    [cause |-> diagnoses[i].possible_causes[j], at |-> <<i, j>>]])
          ELSE <<>>)
         \o CombinedCauses(diagnoses, i + 1)

\* Mutant: the causes are not merged by id.
UniqueCauses_NoMerge(combined, k, unique) == combined

\* unique_causes: a dict keyed by cause id, in insertion order; a later cause
\* with a known id raises the stored adjusted_probability to the maximum.
RECURSIVE UniqueCauses(_, _, _)
UniqueCauses(combined, k, unique) ==
    IF k > Len(combined) THEN unique
    ELSE LET c == combined[k]
             known == {u \in 1..Len(unique) : unique[u].cause.id = c.cause.id}
         IN  IF known = {}
             THEN UniqueCauses(combined, k + 1, Append(unique, c))
             ELSE LET u == CHOOSE x \in known : TRUE IN
                  UniqueCauses(combined, k + 1,
                      [unique EXCEPT ![u].cause.adjusted_probability =
                          Max(@, c.cause.adjusted_probability)])

UniqueKey(u) == u.cause.adjusted_probability

\* Mutant: only the first cause of each diagnosis enters the summary.
LeadingCauses_One(possible_causes) == Take(possible_causes, 1)

\* diagnosis["possible_causes"][:2] (line 209)
LeadingCauses(possible_causes) == Take(possible_causes, 2)

\* all_causes of the summary: the leading causes of every diagnosis that has
\* causes, in order.
RECURSIVE AllCauses(_, _)
AllCauses(diagnoses, i) ==
    IF i > Len(diagnoses) THEN <<>>
    ELSE (IF "possible_causes" \in DOMAIN diagnoses[i]
             /\ diagnoses[i].possible_causes # <<>>
          THEN LeadingCauses(diagnoses[i].possible_causes)
          ELSE <<>>)
         \o AllCauses(diagnoses, i + 1)

\* _generate_diagnosis_summary: the text as its parts.  A line of the causes
\* is the description and the adjusted probability it prints as a percentage.
_generate_diagnosis_summary(diagnoses, rs_opt) ==
    IF diagnoses = <<>> THEN [text |-> "No diagnoses available."]
    ELSE LET all_causes == AllCauses(diagnoses, 1)
             top == Take(SortedDescBy(all_causes, AdjustedKey), 3)
         IN  [error_codes |-> List([i \in 1..Len(diagnoses) |-> diagnoses[i].error_code]),
              robot |-> IF rs_opt # None THEN Some(rs_opt[1].robot_id) ELSE None,
              active_topics |->
                IF rs_opt # None THEN Take(rs_opt[1].active_topics, 3) ELSE <<>>,
              more_topics |->
                IF rs_opt # None /\ Len(rs_opt[1].active_topics) > 3
                THEN Len(rs_opt[1].active_topics) - 3 ELSE 0,
              causes |-> List([k \in 1..Len(top) |->
                            [description |-> top[k].description,
                             adjusted_probability |-> top[k].adjusted_probability]])]

\* Mutant: the guard for an empty list of codes is missing.
NoErrorCodes_Never(codes) == FALSE

\* "if not error_codes"
NoErrorCodes(codes) == codes = <<>>

diagnose_multiple_errors(codes, rs_opt) ==
    IF NoErrorCodes(codes)
    THEN [status |-> "no_errors",
          message |-> "No error codes provided for diagnosis"]
    ELSE LET diagnoses == List([i \in 1..Len(codes) |->
                              diagnose_single_error(codes[i], rs_opt)])
             primary_diagnosis == diagnoses[PrimaryIndex(diagnoses)]
             unique == UniqueCauses(CombinedCauses(diagnoses, 1), 1, <<>>)
             sorted_unique == SortedDescBy(unique, UniqueKey)
             sorted_causes ==
                List([k \in 1..Len(sorted_unique) |-> sorted_unique[k].cause])
             \* the in-place update of unique_causes[id] is seen through the
             \* individual diagnosis that owns the dict
             written == List([i \in 1..Len(diagnoses) |->
                IF "possible_causes" \in DOMAIN diagnoses[i]
                THEN [diagnoses[i] EXCEPT !.possible_causes =
                        List([j \in 1..Len(diagnoses[i].possible_causes) |->
                            IF \E u \in 1..Len(unique) : unique[u].at = <<i, j>>
                            THEN (unique[CHOOSE u \in 1..Len(unique) :
                                            unique[u].at = <<i, j>>]).cause
                            ELSE diagnoses[i].possible_causes[j]])]
                ELSE diagnoses[i]])
         IN  IF diagnoses = <<>>
             THEN Raise("ValueError")        \* max() of an empty list
             ELSE IF "severity" \notin DOMAIN primary_diagnosis
             THEN Raise("KeyError")          \* primary_diagnosis["severity"]
             ELSE [status |-> "diagnosed",
                   error_count |-> Len(codes),
                   primary_error |-> primary_diagnosis.error_code,
                   primary_severity |-> primary_diagnosis.severity,
                   combined_causes |-> Take(sorted_causes, 5),
                   individual_diagnoses |-> written,
                   \* built last, from the dicts as the merge has left them
                   summary |-> _generate_diagnosis_summary(written, rs_opt)]

\* _generate_safety_notes: the notes as the templates chosen.
_generate_safety_notes(diagnosis) ==
    LET severity_notes ==
            IF diagnosis.primary_severity = "high"
            THEN <<"high_severity", "no_bypass", "lockout_tagout">>
            ELSE <<>>
        ind == diagnosis.individual_diagnoses
        \* "safety" in str(d.get("category", "")).lower()
        safety_category(d) ==
            "category" \in DOMAIN d /\ "safety" \in KeywordsIn(d.category)
        category_notes ==
            IF \E i \in 1..Len(ind) : safety_category(ind[i])
            THEN <<"safety_intervention", "verify_circuits">>
            ELSE <<>>
        safety_notes == severity_notes \o category_notes
    IN  IF safety_notes = <<>> THEN <<"standard_procedures">> ELSE safety_notes

\* _estimate_resolution_time: the numbers the text is formatted from.
_estimate_resolution_time(diagnosis) ==
    LET base_time == CASE diagnosis.primary_severity = "high" -> 30
                       [] diagnosis.primary_severity = "medium" -> 15
                       [] OTHER -> 5
        total_time == base_time * diagnosis.error_count
    IN  IF total_time < 60 THEN [minutes |-> total_time]
        ELSE [hours |-> total_time \div 60, minutes |-> total_time % 60]

\* list(dict.fromkeys(s)): the first occurrence of each element, in order.
RECURSIVE DictFromKeys(_)
DictFromKeys(s) ==
    IF s = <<>> THEN <<>>
    ELSE LET init == DictFromKeys(SubSeq(s, 1, Len(s) - 1))
             last == s[Len(s)]
         IN  IF last \in Range(init) THEN init ELSE Append(init, last)

\* recovery_plan: the recovery steps of every individual diagnosis, in order.
RECURSIVE RecoveryPlan(_, _)
RecoveryPlan(ind, i) ==
    IF i > Len(ind) THEN <<>>
    ELSE (IF "recovery_steps" \in DOMAIN ind[i] THEN ind[i].recovery_steps
          ELSE <<>>)
         \o RecoveryPlan(ind, i + 1)

\* generate_diagnosis_plan from line 274 on, diagnosis being the answer of
\* diagnose_multiple_errors; an exception of that call propagates.
PlanOfDiagnosis(diagnosis) ==
    IF Raised(diagnosis) THEN diagnosis
    ELSE IF diagnosis.status # "diagnosed" THEN diagnosis
    ELSE LET causes == Take(diagnosis.combined_causes, 5)
             check_steps ==
                List([k \in 1..Len(causes) |->
                    [id |-> causes[k].id,
                     description |-> causes[k].description,
                     action |-> causes[k].check,
                     priority |-> IF causes[k].adjusted_probability > Tenths(6)
                                  THEN "HIGH" ELSE "MEDIUM"]])
             unique_recovery_steps ==
                DictFromKeys(RecoveryPlan(diagnosis.individual_diagnoses, 1))
         IN  [status |-> "plan_generated",
              diagnosis_summary |-> diagnosis.summary,
              check_steps |-> check_steps,
              recovery_plan |-> Take(unique_recovery_steps, 5),
              safety_notes |-> _generate_safety_notes(diagnosis),
              estimated_resolution_time |-> _estimate_resolution_time(diagnosis)]

\* generate_diagnosis_plan: diagnose_multiple_errors is called once (line 272)
\* and its answer is bound to diagnosis.
generate_diagnosis_plan(codes, rs_opt) ==
    CHOOSE plan \in {PlanOfDiagnosis(diagnosis) :
                        diagnosis \in {diagnose_multiple_errors(codes, rs_opt)}} : TRUE

-----------------------------------------------------------------------------
(* The writes of the diagnoser.  Every statement of a handler that changes   *)
(* an object (an item assignment, append or extend) is a write into that     *)
(* object; the object is one the call built itself, or the recovery_steps    *)
(* list of a fault tree, which diagnose_single_error hands out uncopied      *)
(* (line 58: "recovery_steps": tree.recovery_steps or []).                   *)

OwnObject == [owner |-> "call"]

TreeSteps(error_code) == [owner |-> "tree", error_code |-> error_code]

\* _adjust_probabilities_with_runtime, lines 110-119: appends to its own list
\* and two item assignments into the diagnosis dict of the call.
WritesOfSingle(error_code, rs_opt) ==
    IF get_fault_tree(error_code) = None \/ rs_opt = None THEN <<>>
    ELSE <<[into |-> OwnObject, op |-> "setitem", value |-> <<"possible_causes">>],
           [into |-> OwnObject, op |-> "setitem", value |-> <<"runtime_enhanced">>]>>

RECURSIVE WritesOfSingles(_, _, _)
WritesOfSingles(codes, rs_opt, i) ==
    IF i > Len(codes) THEN <<>>
    ELSE WritesOfSingle(codes[i], rs_opt) \o WritesOfSingles(codes, rs_opt, i + 1)

\* diagnose_multiple_errors: the writes of each single diagnosis, then one
\* item assignment (line 165) for every cause whose id was already stored;
\* the dict written is a cause dict of an individual diagnosis.
WritesOfMultiple(codes, rs_opt) ==
    IF NoErrorCodes(codes) THEN <<>>
    ELSE LET diagnoses == List([i \in 1..Len(codes) |->
                              diagnose_single_error(codes[i], rs_opt)])
             combined == CombinedCauses(diagnoses, 1)
             unique == UniqueCauses(combined, 1, <<>>)
         IN  WritesOfSingles(codes, rs_opt, 1)
             \o List([k \in 1..(Len(combined) - Len(unique)) |->
                    [into |-> OwnObject, op |-> "setitem",
                     value |-> <<"adjusted_probability">>]])

\* Mutant: the plan is accumulated in the recovery_steps list of the first
\* diagnosis instead of a new list.
PlanAccumulator_FirstSteps(ind) ==
    IF ind # <<>> /\ "recovery_steps" \in DOMAIN ind[1] /\ ind[1].recovery_steps # <<>>
    THEN TreeSteps(ind[1].error_code)
    ELSE OwnObject

\* recovery_plan = [] (line 289): the list the plan is accumulated in.
PlanAccumulator(ind) == OwnObject

\* recovery_plan.extend(diag["recovery_steps"]) for every individual diagnosis
\* with recovery steps (lines 290-292).
RECURSIVE ExtendsOfPlan(_, _)
ExtendsOfPlan(ind, i) ==
    IF i > Len(ind) THEN <<>>
    ELSE (IF "recovery_steps" \in DOMAIN ind[i] /\ ind[i].recovery_steps # <<>>
          THEN <<[into |-> PlanAccumulator(ind), op |-> "extend",
                  value |-> ind[i].recovery_steps]>>
          ELSE <<>>)
         \o ExtendsOfPlan(ind, i + 1)

ExtendsOfDiagnosis(diagnosis) ==
    IF Raised(diagnosis) THEN <<>>
    ELSE IF diagnosis.status # "diagnosed" THEN <<>>
    ELSE ExtendsOfPlan(diagnosis.individual_diagnoses, 1)

WritesOfPlan(codes, rs_opt) ==
    WritesOfMultiple(codes, rs_opt)
    \o (CHOOSE extends \in {ExtendsOfDiagnosis(diagnosis) :
                diagnosis \in {diagnose_multiple_errors(codes, rs_opt)}} : TRUE)

\* The knowledge base once the writes of a call have been made: a write into
\* an object of the call leaves it alone, an extend of a tree's list lengthens
\* that list.
RECURSIVE KnowledgeBaseAfter(_, _, _)
KnowledgeBaseAfter(trees, writes, k) ==
    IF k > Len(writes) THEN trees
    ELSE LET w == writes[k] IN
         KnowledgeBaseAfter(
            IF w.into.owner = "tree" /\ w.op = "extend"
            THEN [trees EXCEPT ![w.into.error_code].recovery_steps = @ \o w.value]
            ELSE trees,
            writes, k + 1)

\* GET /tree/{error_code}: the tree as a dict, or the 404 answer.
fault_tree_endpoint(error_code) ==
    IF error_code \notin DOMAIN FAULT_TREES
    THEN [status |-> "error", status_code |-> 404]
    ELSE LET tree == FAULT_TREES[error_code] IN
         [status |-> "success",
          error_code |-> error_code,
          fault_tree |->
            [error_code |-> tree.error_code,
             description |-> tree.description,
             category |-> tree.category,
             severity |-> tree.severity,
             causes |-> List([i \in 1..Len(tree.causes) |->
                            [id |-> tree.causes[i].id,
                             description |-> tree.causes[i].description,
                             check |-> tree.causes[i].check,
                             probability |-> tree.causes[i].probability]]),
             recovery_steps |-> tree.recovery_steps]]

-----------------------------------------------------------------------------
(* Requests to the single-unit diagnoser                                     *)

MaxCodes == 3

\* The knowledge-base codes and one code that is no key of it.
Codes == {"E201", "E301", "E101", "E102", "W001", "E999"}

TopicLists ==
    {<<>>, <<"/odom">>, <<"/laser_scan">>, <<"/battery_state">>,
     <<"/odom", "/battery_state", "/laser_scan">>}

ParameterDicts ==
    {<<>>,
     [speed_limit |-> "0"],
     [emergency_stop |-> "true"],
     [position_x |-> "1.5"],
     [speed_limit |-> "0", emergency_stop |-> "active", joint_1 |-> "0.3"]}

RuntimeStates ==
    [robot_id : {"agv_01"}, active_topics : TopicLists, parameters : ParameterDicts]

NoResult == [status |-> "none"]

\* No query is in hand.
NoQuery ==
    /\ search_results = <<>>
    /\ error_results = <<>>
    /\ query_history = <<>>
    /\ query_result = NoResult

\* No snapshot has been received.
NoSnapshots ==
    /\ snapshot_module = "snapshot_ingestion"
    /\ snapshot_store = <<>>
    /\ background_tasks = <<>>
    /\ snapshot_response = NoResult

\* The robot models and firmware versions of the fleets.
Models == {"A1", "B2"}

Firmwares == {"v2.0", "v2.1"}

Locations == {"dock", "bay"}

\* Iteration orders of the sets of strings the fleet diagnoser builds (sets of
\* models, of firmware versions and of locations): one order and its reverse,
\* so that every set of two strings is listed both ways.
SomeOrder == <<"A1", "B2", "v2.0", "v2.1", "dock", "bay">>

SetOrders ==
    {SomeOrder, List([i \in 1..Len(SomeOrder) |-> SomeOrder[Len(SomeOrder) + 1 - i]])}

InitDiag ==
    /\ FAULT_TREES = LoadedFaultTrees
    /\ error_codes \in SeqsUpTo(Codes, MaxCodes)
    /\ runtime_state \in {None} \cup {Some(rs) : rs \in RuntimeStates}
    /\ diag_result = NoResult
    /\ fleet_state = [robots |-> <<>>]
    /\ fleet_result = NoResult
    \* the single-unit diagnoser iterates no set, nor does a call on an empty fleet
    /\ set_order = SomeOrder
    /\ NoQuery
    /\ NoSnapshots
    /\ op = [name |-> "none"]

\* await service.diagnose_single_error(code, runtime_state)
DiagnoseSingleError ==
    \E code \in Codes :
        /\ op.name = "none"
        /\ diag_result' = diagnose_single_error(code, runtime_state)
        /\ FAULT_TREES' =
              KnowledgeBaseAfter(FAULT_TREES, WritesOfSingle(code, runtime_state), 1)
        /\ op' = [name |-> "diagnose_single_error", error_code |-> code]
        /\ UNCHANGED <<error_codes, runtime_state,
                       fleet_state, fleet_result, set_order, query_vars, snapshot_vars>>

\* await service.diagnose_multiple_errors(error_codes, runtime_state)
DiagnoseMultipleErrors ==
    /\ op.name = "none"
    /\ diag_result' = diagnose_multiple_errors(error_codes, runtime_state)
    /\ FAULT_TREES' =
          KnowledgeBaseAfter(FAULT_TREES, WritesOfMultiple(error_codes, runtime_state), 1)
    /\ op' = [name |-> "diagnose_multiple_errors"]
    /\ UNCHANGED <<error_codes, runtime_state,
                   fleet_state, fleet_result, set_order, query_vars, snapshot_vars>>

\* await service.generate_diagnosis_plan(error_codes, runtime_state)
GenerateDiagnosisPlan ==
    /\ op.name = "none"
    /\ diag_result' = generate_diagnosis_plan(error_codes, runtime_state)
    /\ FAULT_TREES' =
          KnowledgeBaseAfter(FAULT_TREES, WritesOfPlan(error_codes, runtime_state), 1)
    /\ op' = [name |-> "generate_diagnosis_plan"]
    /\ UNCHANGED <<error_codes, runtime_state,
                   fleet_state, fleet_result, set_order, query_vars, snapshot_vars>>

NextDiag == DiagnoseSingleError \/ DiagnoseMultipleErrors \/ GenerateDiagnosisPlan

SpecDiag == InitDiag /\ [][NextDiag]_vars

-----------------------------------------------------------------------------
(* A server that answers one request after another.  No handler of the       *)
(* diagnoser suspends (each awaits only coroutines that never yield), so on  *)
(* the event loop concurrent requests run one whole handler at a time, in    *)
(* any order.                                                                *)

MaxServe == 2

ServeCodeLists == SeqsUpTo({"E201", "E301", "E999"}, MaxServe)

ServeRuntimeStates ==
    {None,
     Some([robot_id |-> "agv_01", active_topics |-> <<"/laser_scan">>,
           parameters |-> [emergency_stop |-> "true"]]),
     Some([robot_id |-> "agv_01", active_topics |-> <<>>, parameters |-> <<>>])}

InitServe ==
    /\ FAULT_TREES = LoadedFaultTrees
    /\ error_codes \in ServeCodeLists
    /\ runtime_state \in ServeRuntimeStates
    /\ diag_result = NoResult
    /\ fleet_state = [robots |-> <<>>]
    /\ fleet_result = NoResult
    /\ set_order = SomeOrder
    /\ NoQuery
    /\ NoSnapshots
    /\ op = [name |-> "none"]

\* The next request arrives once the last one is answered.
NextRequest ==
    /\ op.name # "none"
    /\ error_codes' \in ServeCodeLists
    /\ runtime_state' \in ServeRuntimeStates
    /\ op' = [name |-> "none"]
    /\ UNCHANGED <<FAULT_TREES, diag_result,
                   fleet_state, fleet_result, set_order, query_vars, snapshot_vars>>

\* GET /api/v1/diagnostics/tree/{error_code}
LookupFaultTree ==
    \E code \in {"E201", "E301", "E999"} :
        /\ op.name = "none"
        /\ diag_result' = fault_tree_endpoint(code)
        /\ op' = [name |-> "get_fault_tree", error_code |-> code]
        /\ UNCHANGED <<FAULT_TREES, error_codes, runtime_state,
                       fleet_state, fleet_result, set_order, query_vars, snapshot_vars>>

NextServe ==
    \/ NextRequest
    \/ DiagnoseSingleError
    \/ DiagnoseMultipleErrors
    \/ GenerateDiagnosisPlan
    \/ LookupFaultTree

SpecServe == InitServe /\ [][NextServe]_vars

-----------------------------------------------------------------------------
(* models/fleet.py and fleet_diagnostic_service.py: FleetDiagnosticService   *)
(* A fleet is [robots |-> list of RobotState]; a RobotState is a record with *)
(* robot_id, model, firmware, errors, last_seen (Optional, in minutes),      *)
(* location (Optional), battery_level (Optional), active_topics, parameters. *)

\* Mutant: the order of a set changes from one call to the next.
ListOfSet_PerCall(S) ==
    LET in_S(x) == x \in S
        listed == SelectSeq(set_order, in_S)
    IN  IF op.name = "none" THEN listed
        ELSE List([i \in 1..Len(listed) |-> listed[Len(listed) + 1 - i]])

\* list(s) of a set of strings: its elements in the order in which the process
\* iterates them, which the hash seed of the process fixes.
ListOfSet(S) ==
    LET in_S(x) == x \in S
    IN  SelectSeq(set_order, in_S)

\* FleetState.get_robots_with_error
get_robots_with_error(fleet, error_code) ==
    LET has_error(r) == error_code \in Range(r.errors)
    IN  SelectSeq(fleet.robots, has_error)

\* Counter(values): the count of each value that occurs.
Counter(values) ==
    [v \in Range(values) |-> LET same(x) == x = v IN Count(values, same)]

\* all_errors: every (error, robot) pair, robot by robot.
RECURSIVE AllErrors(_, _)
AllErrors(robots, i) ==
    IF i > Len(robots) THEN <<>>
    ELSE List([k \in 1..Len(robots[i].errors) |->
                 [error_code |-> robots[i].errors[k], robot |-> robots[i]]])
         \o AllErrors(robots, i + 1)

\* Mutant: the numerator counts every affected robot, of any model.
SameModelRate_AllAffected(fleet, error_code, robot) ==
    LET affected == get_robots_with_error(fleet, error_code)
        same_model(r) == r.model = robot.model
    IN  SafeRate(Len(affected), Count(fleet.robots, same_model))

\* Mutant: the rate is taken on the model of the last robot carrying the code.
SameModelRate_LastCarrier(fleet, error_code, robot) ==
    LET affected == get_robots_with_error(fleet, error_code)
        same_model(r) == r.model = affected[Len(affected)].model
    IN  SafeRate(Count(affected, same_model), Count(fleet.robots, same_model))

\* Mutant: the rate is taken on the model of the first robot of the fleet.
SameModelRate_FirstRobot(fleet, error_code, robot) ==
    LET affected == get_robots_with_error(fleet, error_code)
        same_model(r) == r.model = fleet.robots[1].model
    IN  SafeRate(Count(affected, same_model), Count(fleet.robots, same_model))

\* occurrence rate of error_code, seen first on robot (lines 214-219)
SameModelRate(fleet, error_code, robot) ==
    LET affected == get_robots_with_error(fleet, error_code)
        same_model(r) == r.model = robot.model
        total_same_model == Count(fleet.robots, same_model)
        affected_same_model == Count(affected, same_model)
    IN  SafeRate(affected_same_model, total_same_model)

\* Mutant: a rate of exactly 0.2 is still low.
RateSeverity_StrictMedium(rate) ==
    IF FracGE(rate, Dec(5)) THEN "high"
    ELSE IF FracGT(rate, Dec(2)) THEN "medium"
    ELSE "low"

\* severity from the rate (lines 224-230)
RateSeverity(rate) ==
    IF FracGE(rate, Dec(5)) THEN "high"
    ELSE IF FracGE(rate, Dec(2)) THEN "medium"
    ELSE "low"

\* The ErrorStatistics built for error_code, seen first on robot.
ErrorStatisticsOf(fleet, error_code, robot) ==
    LET affected == get_robots_with_error(fleet, error_code)
        rate == SameModelRate(fleet, error_code, robot)
    IN  [error_code |-> error_code,
         total_occurrences |-> Len(affected),
         affected_robots |-> Len(affected),
         models_affected |-> ListOfSet({affected[i].model : i \in 1..Len(affected)}),
         firmware_distribution |->
            Counter(List([i \in 1..Len(affected) |-> affected[i].firmware])),
         occurrence_rate |-> rate,
         severity |-> RateSeverity(rate)]

\* error_stats: a dict keyed by error code, in insertion order.
RECURSIVE ErrorStatsLoop(_, _, _, _)
ErrorStatsLoop(fleet, all_errors, k, error_stats) ==
    IF k > Len(all_errors) THEN error_stats
    ELSE LET e == all_errors[k] IN
         IF \E i \in 1..Len(error_stats) : error_stats[i].error_code = e.error_code
         THEN ErrorStatsLoop(fleet, all_errors, k + 1, error_stats)
         ELSE ErrorStatsLoop(fleet, all_errors, k + 1,
                  Append(error_stats, ErrorStatisticsOf(fleet, e.error_code, e.robot)))

_analyze_error_distribution(fleet) ==
    IF fleet.robots = <<>> THEN <<>>
    ELSE ErrorStatsLoop(fleet, AllErrors(fleet.robots, 1), 1, <<>>)

\* next(iter(s)) of a set with one element
TheOne(S) == CHOOSE x \in S : TRUE

\* Mutant: the rate is taken over the whole fleet.
FirmwareRate_OverFleet(fleet, affected_robots, firmware) ==
    SafeRate(Len(affected_robots), Len(fleet.robots))

\* rate of the one firmware of the affected robots (lines 332-336)
FirmwareRate(fleet, affected_robots, firmware) ==
    LET on_firmware(r) == r.firmware = firmware
        total_with_firmware == Count(fleet.robots, on_firmware)
        affected_with_firmware == Count(affected_robots, on_firmware)
    IN  SafeRate(affected_with_firmware, total_with_firmware)

\* Mutant: a span of exactly one hour still counts.
WithinTheHour_Inclusive(time_diff) == time_diff <= 60

\* time_diff < timedelta(hours=1) (line 372), time_diff in minutes
WithinTheHour(time_diff) == time_diff < 60

\* Mutant: the candidate of the highest confidence is the most likely cause.
MostLikelyCause_MaxConfidence(root_causes) ==
    IF root_causes # <<>>
    THEN root_causes[CHOOSE i \in 1..Len(root_causes) :
            /\ \A j \in 1..Len(root_causes) :
                  FracGE(root_causes[i].confidence, root_causes[j].confidence)
            /\ \A j \in 1..(i - 1) :
                  FracGT(root_causes[i].confidence, root_causes[j].confidence)]
    ELSE [type |-> "unknown", confidence |-> Dec(3)]

\* root_causes[0] if root_causes else {"type": "unknown", "confidence": 0.3}
MostLikelyCause(root_causes) ==
    IF root_causes # <<>> THEN root_causes[1]
    ELSE [type |-> "unknown", confidence |-> Dec(3)]

_analyze_root_cause(fleet, error_code) ==
    LET affected_robots == get_robots_with_error(fleet, error_code)
        idx == 1..Len(affected_robots)
        common_models == {affected_robots[i].model : i \in idx}
        common_firmware == {affected_robots[i].firmware : i \in idx}
        common_locations ==
            {affected_robots[i].location[1] :
                i \in {j \in idx : affected_robots[j].location # None}}
        firmware_cause ==
            IF Cardinality(common_firmware) = 1
            THEN LET firmware == TheOne(common_firmware)
                     rate == FirmwareRate(fleet, affected_robots, firmware)
                 IN  <<[type |-> "firmware",
                        firmware_version |-> firmware,
                        occurrence_rate |-> rate,
                        confidence |-> FracMin(Dec(9), Affine(5, rate, 5))]>>
            ELSE <<>>
        model_cause ==
            IF Cardinality(common_models) = 1
            THEN <<[type |-> "model_specific",
                    model |-> TheOne(common_models),
                    confidence |-> Dec(7)]>>
            ELSE <<>>
        location_cause ==
            IF Cardinality(common_locations) = 1
            THEN <<[type |-> "environmental",
                    location |-> TheOne(common_locations),
                    confidence |-> Dec(6)]>>
            ELSE <<>>
        timestamps == {affected_robots[i].last_seen[1] :
                        i \in {j \in idx : affected_robots[j].last_seen # None}}
        time_diff == (CHOOSE t \in timestamps : \A u \in timestamps : u <= t)
                     - (CHOOSE t \in timestamps : \A u \in timestamps : t <= u)
        temporal_cause ==
            IF /\ \A i \in idx : affected_robots[i].last_seen # None
               /\ WithinTheHour(time_diff)
            THEN <<[type |-> "temporal",
                    time_window |-> time_diff,
                    confidence |-> Dec(8)]>>
            ELSE <<>>
        root_causes == firmware_cause \o model_cause \o location_cause \o temporal_cause
    IN  IF affected_robots = <<>>
        THEN [common_features |-> [models |-> <<>>, firmware_versions |-> <<>>,
                                   locations |-> <<>>],
              possible_root_causes |-> <<>>,
              most_likely_cause |-> [type |-> "unknown", confidence |-> Dec(0)]]
        ELSE [common_features |-> [models |-> ListOfSet(common_models),
                                   firmware_versions |-> ListOfSet(common_firmware),
                                   locations |-> ListOfSet(common_locations)],
              possible_root_causes |-> root_causes,
              most_likely_cause |-> MostLikelyCause(root_causes)]

\* {"high": 3, "medium": 2, "low": 1}.get(x["severity"], 0)
IssueSeverityRank(x) ==
    CASE x.severity = "high" -> 3
      [] x.severity = "medium" -> 2
      [] x.severity = "low" -> 1
      [] OTHER -> 0

\* Mutant: the occurrence-rate trigger is missing.
IsSystemic_NoRate(stats) ==
    \/ stats.affected_robots >= 3
    \/ Len(stats.models_affected) > 1

\* Mutant: an error on several models is not systemic for that alone.
IsSystemic_NoModels(stats) ==
    \/ stats.affected_robots >= 3
    \/ FracGE(stats.occurrence_rate, Dec(4))

\* the condition of lines 251-253
IsSystemic(stats) ==
    \/ stats.affected_robots >= 3
    \/ FracGE(stats.occurrence_rate, Dec(4))
    \/ Len(stats.models_affected) > 1

\* Mutant: the number of affected robots is no part of the key.
SystemicKeyGT_NoAffected(a, b) ==
    \/ IssueSeverityRank(a) > IssueSeverityRank(b)
    \/ /\ IssueSeverityRank(a) = IssueSeverityRank(b)
       /\ FracGT(a.occurrence_rate, b.occurrence_rate)

\* key(a) > key(b) for the key (severity rank, affected_robots, occurrence_rate)
SystemicKeyGT(a, b) ==
    \/ IssueSeverityRank(a) > IssueSeverityRank(b)
    \/ /\ IssueSeverityRank(a) = IssueSeverityRank(b)
       /\ \/ a.affected_robots > b.affected_robots
          \/ /\ a.affected_robots = b.affected_robots
             /\ FracGT(a.occurrence_rate, b.occurrence_rate)

\* Mutant: the confidence is not capped.
SystemicConfidence_Uncapped(occurrence_rate) == Affine(3, occurrence_rate, 7)

\* min(0.9, 0.3 + stats.occurrence_rate * 0.7) (line 266)
SystemicConfidence(occurrence_rate) ==
    FracMin(Dec(9), Affine(3, occurrence_rate, 7))

_identify_systemic_issues(fleet, error_stats) ==
    LET chosen == SelectSeq(error_stats, IsSystemic)
        systemic_issues ==
            List([i \in 1..Len(chosen) |->
                [error_code |-> chosen[i].error_code,
                 affected_robots |-> chosen[i].affected_robots,
                 occurrence_rate |-> chosen[i].occurrence_rate,
                 models_affected |-> chosen[i].models_affected,
                 firmware_distribution |-> chosen[i].firmware_distribution,
                 severity |-> chosen[i].severity,
                 root_cause_analysis |-> _analyze_root_cause(fleet, chosen[i].error_code),
                 confidence |-> SystemicConfidence(chosen[i].occurrence_rate)]])
    IN  SortedDesc(systemic_issues, SystemicKeyGT)

\* Mutant: an error on two robots still counts as a single-unit issue.
IsSingleUnit_AtMostTwo(stats) == stats.affected_robots <= 2

\* the condition of line 284
IsSingleUnit(stats) == stats.affected_robots = 1

_identify_single_unit_issues(fleet, error_stats) ==
    LET chosen == SelectSeq(error_stats, IsSingleUnit)
        single_unit_issues ==
            List([i \in 1..Len(chosen) |->
                LET affected_robot ==
                        get_robots_with_error(fleet, chosen[i].error_code)[1]
                IN  [robot_id |-> affected_robot.robot_id,
                     error_code |-> chosen[i].error_code,
                     model |-> affected_robot.model,
                     firmware |-> affected_robot.firmware,
                     location |-> affected_robot.location,
                     battery_level |-> affected_robot.battery_level,
                     severity |-> chosen[i].severity,
                     possible_causes |-> <<"hardware fault", "sensor calibration drift",
                                           "device-specific configuration error",
                                           "installation position", "environmental interference">>]])
    IN  SortedDescBy(single_unit_issues, IssueSeverityRank)


\* Mutant: the firmware line is never chosen.
SystemicLine_NoFirmware(issue) ==
    IF Len(issue.models_affected) = 1
    THEN [line |-> "model_specific", model |-> issue.models_affected[1],
          affected |-> issue.affected_robots]
    ELSE [line |-> "batch_plan", error_code |-> issue.error_code,
          affected |-> issue.affected_robots]

\* One line per recommendation, as the template chosen and the values it names.
SystemicLine(issue) ==
    LET root_cause == issue.root_cause_analysis.most_likely_cause IN
    IF root_cause.type = "firmware"
    THEN [line |-> "firmware", firmware_version |-> root_cause.firmware_version,
          affected |-> issue.affected_robots]
    ELSE IF Len(issue.models_affected) = 1
    THEN [line |-> "model_specific", model |-> issue.models_affected[1],
          affected |-> issue.affected_robots]
    ELSE [line |-> "batch_plan", error_code |-> issue.error_code,
          affected |-> issue.affected_robots]

\* error_rate > 0.3 (line 432)
NeedsReliabilityAdvice(error_rate) == FracGT(error_rate, Dec(3))

_generate_recommendations(systemic_issues, single_unit_issues, fleet) ==
    LET has_errors(r) == r.errors # <<>>
        total_robots == Len(fleet.robots)
        top == Take(systemic_issues, 2)
        systemic_part ==
            IF systemic_issues # <<>>
            THEN <<[line |-> "systemic_header"]>>
                 \o List([i \in 1..Len(top) |-> SystemicLine(top[i])])
            ELSE <<>>
        single_part ==
            IF single_unit_issues = <<>> THEN <<>>
            ELSE IF Len(single_unit_issues) <= 3
            THEN List([i \in 1..Len(single_unit_issues) |->
                    [line |-> "single_unit",
                     robot_id |-> single_unit_issues[i].robot_id,
                     error_code |-> single_unit_issues[i].error_code]])
            ELSE <<[line |-> "batch_repair", count |-> Len(single_unit_issues)]>>
        preventive_part ==
            IF /\ total_robots > 0
               /\ NeedsReliabilityAdvice(
                      Frac(Count(fleet.robots, has_errors), total_robots))
            THEN <<[line |-> "reliability_header"], [line |-> "maintenance_plan"],
                   [line |-> "firmware_management"], [line |-> "site_monitoring"]>>
            ELSE <<>>
        recommendations == systemic_part \o single_part \o preventive_part
    IN  IF recommendations = <<>> THEN <<[line |-> "fleet_healthy"]>>
        ELSE recommendations

\* Mutant: one affected robot already counts as several.
SeveralRobots_AtLeastOne(affected_robots) == Len(affected_robots) >= 1

\* criterion 1 of analyze_specific_error (line 144)
SeveralRobots(affected_robots) == Len(affected_robots) >= 2

\* analyze_specific_error; the robot itself is passed as the runtime state of
\* diagnose_single_error (it has active_topics and parameters).
analyze_specific_error(fleet, error_code) ==
    LET affected_robots == get_robots_with_error(fleet, error_code)
        idx == 1..Len(affected_robots)
        model_counter == Counter(List([i \in idx |-> affected_robots[i].model]))
        firmware_counter == Counter(List([i \in idx |-> affected_robots[i].firmware]))
        models_with_error == {affected_robots[i].model : i \in idx}
        firmware_rate(firmware) ==
            LET on_firmware(r) == r.firmware = firmware
            IN  SafeRate(firmware_counter[firmware], Count(fleet.robots, on_firmware))
        concentrated == {f \in DOMAIN firmware_counter :
                            /\ FracGE(firmware_rate(f), Dec(3))
                            /\ firmware_counter[f] >= 2}
        systemic_reasons ==
            (IF SeveralRobots(affected_robots) THEN {"multiple_robots"} ELSE {})
            \cup (IF concentrated # {} THEN {"firmware_concentration"} ELSE {})
            \cup (IF Cardinality(models_with_error) > 1 THEN {"multiple_models"} ELSE {})
        is_systemic == systemic_reasons # {}
        first3 == Take(affected_robots, 3)
    IN  IF affected_robots = <<>>
        THEN [error_code |-> error_code, status |-> "not_found"]
        ELSE [error_code |-> error_code,
              is_systemic |-> is_systemic,
              total_affected |-> Len(affected_robots),
              affected_robots |-> List([i \in idx |-> affected_robots[i].robot_id]),
              model_distribution |-> model_counter,
              firmware_distribution |-> firmware_counter,
              firmware_rates |-> [f \in DOMAIN firmware_counter |-> firmware_rate(f)],
              systemic_reasons |->
                 IF systemic_reasons # {} THEN systemic_reasons
                 ELSE {"possibly_single_unit"},
              individual_diagnoses |->
                 List([i \in 1..Len(first3) |->
                    [robot_id |-> first3[i].robot_id,
                     model |-> first3[i].model,
                     firmware |-> first3[i].firmware,
                     diagnosis |-> diagnose_single_error(error_code, Some(first3[i]))]]),
              recommendations |-> IF is_systemic THEN "systemic" ELSE "single_unit"]

\* diagnose_fleet; focus_error is Optional.  The detailed report is text built
\* from the same lists and is left out.
diagnose_fleet(fleet, focus_error) ==
    IF fleet.robots = <<>>
    THEN [status |-> "completed",
          summary |-> [total_robots |-> 0,
                       robots_with_errors |-> 0,
                       error_rate |-> Frac(0, 1),
                       unique_errors |-> 0,
                       systemic_issue_count |-> 0,
                       single_unit_issue_count |-> 0,
                       focus_error_analysis |-> <<>>],
          systemic_issues |-> <<>>,
          single_unit_issues |-> <<>>,
          recommendations |-> <<[line |-> "fleet_empty"]>>]
    ELSE LET has_errors(r) == r.errors # <<>>
             total_robots == Len(fleet.robots)
             robots_with_errors == Count(fleet.robots, has_errors)
             error_rate == SafeRate(robots_with_errors, total_robots)
             error_analysis == _analyze_error_distribution(fleet)
             systemic_issues == _identify_systemic_issues(fleet, error_analysis)
             single_unit_issues == _identify_single_unit_issues(fleet, error_analysis)
             focus_analysis ==
                IF focus_error # None
                THEN analyze_specific_error(fleet, focus_error[1])
                ELSE <<>>
         IN  [status |-> "completed",
              summary |-> [total_robots |-> total_robots,
                           robots_with_errors |-> robots_with_errors,
                           error_rate |-> error_rate,
                           unique_errors |-> Len(error_analysis),
                           systemic_issue_count |-> Len(systemic_issues),
                           single_unit_issue_count |-> Len(single_unit_issues),
                           \* focus_analysis.get(focus_error, {})
                           focus_error_analysis |->
                              IF focus_error # None /\ focus_error[1] \in DOMAIN focus_analysis
                              THEN focus_analysis[focus_error[1]]
                              ELSE <<>>],
              error_analysis |-> error_analysis,
              systemic_issues |-> systemic_issues,
              single_unit_issues |-> single_unit_issues,
              recommendations |->
                 _generate_recommendations(systemic_issues, single_unit_issues, fleet)]

-----------------------------------------------------------------------------
(* Requests to the fleet diagnoser                                           *)

MaxRobots == 3

ErrorLists == {<<>>, <<"E201">>, <<"E301">>, <<"E201", "E301">>}

\* The error codes a fleet request asks about: two that robots carry and one
\* that none does.
FleetCodes == {"E201", "E301", "E999"}

RobotState(i, model, firmware, errors) ==
    [robot_id |-> "robot-" \o ToString(i),
     model |-> model,
     firmware |-> firmware,
     errors |-> errors,
     last_seen |-> None,
     location |-> None,
     battery_level |-> None,
     active_topics |-> <<>>,
     parameters |-> <<>>]

Fleets ==
    {[robots |-> List([i \in 1..n |-> RobotState(i, m[i], f[i], e[i])])] :
        <<n, m, f, e>> \in
            UNION {{n} \X [1..n -> Models] \X [1..n -> Firmwares] \X [1..n -> ErrorLists]
                   : n \in 0..MaxRobots}}

InitFleet ==
    /\ FAULT_TREES = LoadedFaultTrees
    /\ error_codes = <<>>
    /\ runtime_state = None
    /\ diag_result = NoResult
    /\ fleet_state \in Fleets
    /\ fleet_result = NoResult
    /\ set_order \in SetOrders
    /\ NoQuery
    /\ NoSnapshots
    /\ op = [name |-> "none"]

\* await service.diagnose_fleet(FleetDiagnosisRequest(fleet_state, focus_error))
DiagnoseFleet ==
    \E focus_error \in {None, Some("E201")} :
        /\ op.name = "none"
        /\ fleet_result' = diagnose_fleet(fleet_state, focus_error)
        /\ op' = [name |-> "diagnose_fleet", focus_error |-> focus_error]
        /\ UNCHANGED <<FAULT_TREES, error_codes, runtime_state, diag_result,
                       fleet_state, set_order, query_vars, snapshot_vars>>

\* await service.analyze_specific_error(fleet_state, error_code)
AnalyzeSpecificError ==
    \E error_code \in FleetCodes :
        /\ op.name = "none"
        /\ fleet_result' = analyze_specific_error(fleet_state, error_code)
        /\ op' = [name |-> "analyze_specific_error", error_code |-> error_code]
        /\ UNCHANGED <<FAULT_TREES, error_codes, runtime_state, diag_result,
                       fleet_state, set_order, query_vars, snapshot_vars>>

\* service._analyze_error_distribution(fleet_state), as the tests call it
AnalyzeErrorDistribution ==
    /\ op.name = "none"
    /\ fleet_result' = [error_stats |-> _analyze_error_distribution(fleet_state)]
    /\ op' = [name |-> "_analyze_error_distribution"]
    /\ UNCHANGED <<FAULT_TREES, error_codes, runtime_state, diag_result,
                   fleet_state, set_order, query_vars, snapshot_vars>>

\* The same request once more, after the first diagnosis has returned.
DiagnoseFleetAgain ==
    /\ op.name = "diagnose_fleet"
    /\ fleet_result' = diagnose_fleet(fleet_state, op.focus_error)
    /\ op' = [name |-> "diagnose_fleet_again", focus_error |-> op.focus_error]
    /\ UNCHANGED <<FAULT_TREES, error_codes, runtime_state, diag_result,
                   fleet_state, set_order, query_vars, snapshot_vars>>

NextFleet ==
    \/ DiagnoseFleet
    \/ AnalyzeSpecificError
    \/ AnalyzeErrorDistribution
    \/ DiagnoseFleetAgain

SpecFleet == InitFleet /\ [][NextFleet]_vars

-----------------------------------------------------------------------------
(* Small fleets whose robots report up to three error codes.                 *)

MaxBusy == 2

BusyErrorLists ==
    {<<>>, <<"E201">>, <<"E101">>, <<"E201", "E301">>, <<"E201", "E301", "E101">>}

BusyFleets ==
    {[robots |-> List([i \in 1..n |-> RobotState(i, m[i], f[i], e[i])])] :
        <<n, m, f, e>> \in
            UNION {{n} \X [1..n -> Models] \X [1..n -> Firmwares]
                       \X [1..n -> BusyErrorLists]
                   : n \in 1..MaxBusy}}

InitBusy ==
    /\ FAULT_TREES = LoadedFaultTrees
    /\ error_codes = <<>>
    /\ runtime_state = None
    /\ diag_result = NoResult
    /\ fleet_state \in BusyFleets
    /\ fleet_result = NoResult
    /\ set_order \in SetOrders
    /\ NoQuery
    /\ NoSnapshots
    /\ op = [name |-> "none"]

NextBusy == DiagnoseFleet

SpecBusy == InitBusy /\ [][NextBusy]_vars

-----------------------------------------------------------------------------
(* Larger fleets on one firmware whose robots report E201 or nothing.        *)

MaxHerd == 7

HerdFleets ==
    {[robots |-> List([i \in 1..n |-> RobotState(i, m[i], "v2.0", e[i])])] :
        <<n, m, e>> \in
            UNION {{n} \X [1..n -> Models] \X [1..n -> {<<>>, <<"E201">>}]
                   : n \in 1..MaxHerd}}

InitHerd ==
    /\ FAULT_TREES = LoadedFaultTrees
    /\ error_codes = <<>>
    /\ runtime_state = None
    /\ diag_result = NoResult
    /\ fleet_state \in HerdFleets
    /\ fleet_result = NoResult
    /\ set_order \in SetOrders
    /\ NoQuery
    /\ NoSnapshots
    /\ op = [name |-> "none"]

NextHerd == DiagnoseFleet

SpecHerd == InitHerd /\ [][NextHerd]_vars

-----------------------------------------------------------------------------
(* Fleets of up to four robots on one firmware, reporting two error codes.   *)

MaxQuad == 4

QuadFleets ==
    {[robots |-> List([i \in 1..n |-> RobotState(i, m[i], "v2.0", e[i])])] :
        <<n, m, e>> \in
            UNION {{n} \X [1..n -> Models] \X [1..n -> ErrorLists]
                   : n \in 1..MaxQuad}}

InitQuad ==
    /\ FAULT_TREES = LoadedFaultTrees
    /\ error_codes = <<>>
    /\ runtime_state = None
    /\ diag_result = NoResult
    /\ fleet_state \in QuadFleets
    /\ fleet_result = NoResult
    /\ set_order \in SetOrders
    /\ NoQuery
    /\ NoSnapshots
    /\ op = [name |-> "none"]

NextQuad == DiagnoseFleet

SpecQuad == InitQuad /\ [][NextQuad]_vars

-----------------------------------------------------------------------------
(* The fleet classification and the per-error verdict on the same fleet, as  *)
(* test_fleet_simple.py asks for them one after the other.                   *)

InitVerdict == InitQuad

\* await service.analyze_specific_error(fleet_state, error_code) once
\* diagnose_fleet has answered; the test keeps both answers.
AnalyzeDiagnosedError ==
    \E error_code \in FleetCodes :
        /\ op.name = "diagnose_fleet"
        /\ fleet_result' = [diagnosis |-> fleet_result,
                            analysis |-> analyze_specific_error(fleet_state, error_code)]
        /\ op' = [name |-> "analyze_diagnosed_error", error_code |-> error_code]
        /\ UNCHANGED <<FAULT_TREES, error_codes, runtime_state, diag_result,
                       fleet_state, set_order, query_vars, snapshot_vars>>

NextVerdict == DiagnoseFleet \/ AnalyzeDiagnosedError

SpecVerdict == InitVerdict /\ [][NextVerdict]_vars

-----------------------------------------------------------------------------
(* The same robots listed in another order: diagnose_fleet on a fleet and    *)
(* then on a FleetState whose robots list is a rearrangement of the first.   *)

MaxShuffle == 4

\* A robot reports no error, E201 or E301.
ShuffleErrorLists == {<<>>, <<"E201">>, <<"E301">>}

ShuffleFleets ==
    {[robots |-> List([i \in 1..n |-> RobotState(i, m[i], "v2.0", e[i])])] :
        <<n, m, e>> \in
            UNION {{n} \X [1..n -> Models] \X [1..n -> ShuffleErrorLists]
                   : n \in 1..MaxShuffle}}

\* The orders in which n robots can be listed.
Orders(n) ==
    {p \in [1..n -> 1..n] : \A i, j \in 1..n : p[i] = p[j] => i = j}

\* FleetState(robots=[fleet.robots[k] for k in order])
Shuffled(fleet, order) ==
    [robots |-> List([i \in 1..Len(fleet.robots) |-> fleet.robots[order[i]]])]

InitShuffle ==
    /\ FAULT_TREES = LoadedFaultTrees
    /\ error_codes = <<>>
    /\ runtime_state = None
    /\ diag_result = NoResult
    /\ fleet_state \in ShuffleFleets
    /\ fleet_result = NoResult
    /\ set_order = SomeOrder
    /\ NoQuery
    /\ NoSnapshots
    /\ op = [name |-> "none"]

\* await service.diagnose_fleet(...) on the rearranged fleet, once the fleet
\* as listed has been diagnosed; both answers are kept.
DiagnoseShuffled ==
    \E order \in Orders(Len(fleet_state.robots)) :
        /\ op.name = "diagnose_fleet"
        /\ fleet_result' = [listed |-> fleet_result,
                            shuffled |-> diagnose_fleet(Shuffled(fleet_state, order),
                                                        op.focus_error)]
        /\ op' = [name |-> "diagnose_shuffled", order |-> order]
        /\ UNCHANGED <<FAULT_TREES, error_codes, runtime_state, diag_result,
                       fleet_state, set_order, query_vars, snapshot_vars>>

NextShuffle == DiagnoseFleet \/ DiagnoseShuffled

SpecShuffle == InitShuffle /\ [][NextShuffle]_vars

-----------------------------------------------------------------------------
(* Snapshot ingestion: api/v1/snapshot_ingestion.py and api/v1/snapshot.py.  *)
(* Every endpoint is an async def that runs on the one event loop, and a     *)
(* coroutine gives up the loop only at an await; so an endpoint, and the     *)
(* part of a background task between two awaits, is one step.                *)

\* The retention limit (SNAPSHOT_CONFIG["max_history"], settings.
\* snapshot_max_history; 1000 as shipped), scaled down.
max_history == 2

\* Requests accepted in one behaviour.
MaxRequests == 2

\* Snapshots in one batch request.
MaxBatch == 2

\* SNAPSHOT_CONFIG["max_batch_size"]
max_batch_size == 100

SnapshotRobots == {"agv_01", "agv_02"}

\* A RuntimeSnapshot: timestamp is Some(minute) for an ISO 8601 string and
\* None for a string datetime.fromisoformat rejects (the empty one included).
ValidSnapshots ==
    {[robot_id |-> "agv_01", timestamp |-> Some(12), errors |-> <<"E201">>],
     [robot_id |-> "agv_01", timestamp |-> Some(13), errors |-> <<>>],
     [robot_id |-> "agv_02", timestamp |-> Some(12), errors |-> <<>>]}

Snapshots ==
    ValidSnapshots \cup {[robot_id |-> "agv_02", timestamp |-> None, errors |-> <<>>]}

\* RuntimeService.validate_snapshot
validate_snapshot(snapshot) ==
    snapshot.timestamp # None /\ snapshot.robot_id # ""

\* settings.snapshot_analysis_enabled, as shipped
snapshot_analysis_enabled == TRUE

InitSnapshots ==
    /\ FAULT_TREES = LoadedFaultTrees
    /\ error_codes = <<>>
    /\ runtime_state = None
    /\ diag_result = NoResult
    /\ fleet_state = [robots |-> <<>>]
    /\ fleet_result = NoResult
    /\ set_order = SomeOrder
    /\ NoQuery
    /\ snapshot_module \in {"snapshot_ingestion", "snapshot"}
    /\ snapshot_store = <<>>
    /\ background_tasks = <<>>
    /\ snapshot_response = NoResult
    /\ op = [name |-> "none"]

other_vars ==
    <<FAULT_TREES, error_codes, runtime_state, diag_result,
      fleet_state, fleet_result, set_order, query_vars, snapshot_module>>

\* POST /snapshot
ingest_runtime_snapshot ==
    \E snapshot \in Snapshots :
        /\ Len(background_tasks) < MaxRequests
        /\ IF ~validate_snapshot(snapshot)
           THEN /\ snapshot_response' = Raise("HTTPException 422")
                /\ UNCHANGED background_tasks
           ELSE /\ background_tasks' =
                      Append(background_tasks, [tasks |-> <<snapshot>>, awaiting |-> FALSE])
                /\ snapshot_response' = [status |-> "accepted",
                                         robot_id |-> snapshot.robot_id,
                                         errors_count |-> Len(snapshot.errors)]
        /\ op' = [name |-> "ingest_runtime_snapshot"]
        /\ UNCHANGED <<other_vars, snapshot_store>>

\* POST /batch
ingest_batch_snapshots ==
    \E snapshots \in SeqsUpTo(Snapshots, MaxBatch) :
        /\ Len(background_tasks) < MaxRequests
        /\ IF Len(snapshots) > max_batch_size
           THEN /\ snapshot_response' = Raise("HTTPException 400")
                /\ UNCHANGED background_tasks
           ELSE LET valid_snapshots == SelectSeq(snapshots, validate_snapshot) IN
                /\ background_tasks' =
                      Append(background_tasks, [tasks |-> valid_snapshots, awaiting |-> FALSE])
                /\ snapshot_response' = [status |-> "accepted",
                                         valid_count |-> Len(valid_snapshots),
                                         invalid_count |-> Len(snapshots) - Len(valid_snapshots)]
        /\ op' = [name |-> "ingest_batch_snapshots"]
        /\ UNCHANGED <<other_vars, snapshot_store>>

\* Mutant: the oldest snapshot goes only once the store is over the limit.
AtLimit_Over(store) == Len(store) > max_history

\* len(snapshot_store) >= max_history
AtLimit(store) == Len(store) >= max_history

\* The store after process_snapshot_async has stored snapshot: pop(0) at the
\* limit, then append.
StoreAfter(store, snapshot) ==
    Append(IF AtLimit(store) THEN Tail(store) ELSE store, snapshot)

\* A background task runs from its start to its first await or its end.  The
\* tasks of one request run one after the other; those of different requests
\* interleave.  The task of snapshot.py awaits the analysis after it has
\* stored; the task of snapshot_ingestion.py has no await.
process_snapshot_async ==
    \E k \in 1..Len(background_tasks) :
        LET request == background_tasks[k]
            snapshot == request.tasks[1]
        IN  /\ request.tasks # <<>>
            /\ ~request.awaiting
            /\ snapshot_store' = StoreAfter(snapshot_store, snapshot)
            /\ background_tasks' =
                  [background_tasks EXCEPT ![k] =
                      IF snapshot_module = "snapshot" /\ snapshot_analysis_enabled
                      THEN [tasks |-> request.tasks, awaiting |-> TRUE]
                      ELSE [tasks |-> Tail(request.tasks), awaiting |-> FALSE]]
            /\ op' = [name |-> "process_snapshot_async",
                      snapshot |-> snapshot,
                      popped |-> IF AtLimit(snapshot_store)
                                 THEN Some(snapshot_store[1]) ELSE None]
            /\ UNCHANGED <<other_vars, snapshot_response>>

\* snapshot.py: await ai_processor.analyze_snapshot(snapshot) returns and the
\* task ends.
analyze_snapshot_returns ==
    \E k \in 1..Len(background_tasks) :
        /\ background_tasks[k].awaiting
        /\ background_tasks' =
              [background_tasks EXCEPT ![k] =
                  [tasks |-> Tail(background_tasks[k].tasks), awaiting |-> FALSE]]
        /\ op' = [name |-> "analyze_snapshot"]
        /\ UNCHANGED <<other_vars, snapshot_store, snapshot_response>>

\* GET /health
health_check ==
    /\ snapshot_response' =
          [snapshot_count |-> Len(snapshot_store),
           unique_robots |-> Cardinality({snapshot_store[i].robot_id :
                                             i \in 1..Len(snapshot_store)}),
           last_snapshot |-> IF snapshot_store # <<>>
                             THEN snapshot_store[Len(snapshot_store)].timestamp
                             ELSE None]
    /\ op' = [name |-> "health_check"]
    /\ UNCHANGED <<other_vars, snapshot_store, background_tasks>>

NewerSnapshot(a, b) == a.timestamp[1] > b.timestamp[1]

\* GET /history/{robot_id} of snapshot_ingestion.py
get_snapshot_history ==
    \E robot_id \in SnapshotRobots, limit \in {1, 10} :
        LET of_robot(s) == s.robot_id = robot_id
            robot_snapshots == SelectSeq(snapshot_store, of_robot)
        IN  /\ snapshot_module = "snapshot_ingestion"
            /\ snapshot_response' =
                  [history |-> Take(SortedDesc(robot_snapshots, NewerSnapshot), limit)]
            /\ op' = [name |-> "get_snapshot_history"]
            /\ UNCHANGED <<other_vars, snapshot_store, background_tasks>>

\* DELETE /clear of snapshot_ingestion.py
clear_snapshots ==
    /\ snapshot_module = "snapshot_ingestion"
    /\ snapshot_store' = <<>>
    /\ snapshot_response' = [status |-> "success", cleared |-> Len(snapshot_store)]
    /\ op' = [name |-> "clear_snapshots"]
    /\ UNCHANGED <<other_vars, background_tasks>>

NextSnapshots ==
    \/ ingest_runtime_snapshot
    \/ ingest_batch_snapshots
    \/ process_snapshot_async
    \/ analyze_snapshot_returns
    \/ health_check
    \/ get_snapshot_history
    \/ clear_snapshots

SpecSnapshots == InitSnapshots /\ [][NextSnapshots]_vars

-----------------------------------------------------------------------------
(* Both services: a request to either diagnoser.                             *)

InitAll == InitDiag \/ InitFleet

NextAll == NextDiag \/ NextFleet

SpecAll == InitAll /\ [][NextAll]_vars

-----------------------------------------------------------------------------
(* Root-cause analysis on robots that report where they are and when they    *)
(* were last seen.                                                           *)

MaxSited == 2

\* last_seen in minutes after some instant; 0 and 90 are more than an hour apart.
LastSeens == {0, 90}

SitedRobotState(i, model, firmware, errors, location, last_seen) ==
    [RobotState(i, model, firmware, errors) EXCEPT
        !.location = location, !.last_seen = last_seen]

SitedFleets ==
    LET Robots == [model : Models, firmware : Firmwares,
                   errors : {<<>>, <<"E201">>},
                   location : {None} \cup {Some(l) : l \in Locations},
                   last_seen : {None} \cup {Some(t) : t \in LastSeens}]
    IN  {[robots |-> List([i \in 1..Len(rs) |->
                    SitedRobotState(i, rs[i].model, rs[i].firmware, rs[i].errors,
                                    rs[i].location, rs[i].last_seen)])] :
            rs \in SeqsUpTo(Robots, MaxSited)}

InitRootCause ==
    /\ FAULT_TREES = LoadedFaultTrees
    /\ error_codes = <<>>
    /\ runtime_state = None
    /\ diag_result = NoResult
    /\ fleet_state \in SitedFleets
    /\ fleet_result = NoResult
    /\ set_order \in SetOrders
    /\ NoQuery
    /\ NoSnapshots
    /\ op = [name |-> "none"]

\* service._analyze_root_cause(fleet_state, error_code)
AnalyzeRootCause ==
    \E error_code \in {"E201"} :
        /\ op.name = "none"
        /\ fleet_result' = _analyze_root_cause(fleet_state, error_code)
        /\ op' = [name |-> "_analyze_root_cause", error_code |-> error_code]
        /\ UNCHANGED <<FAULT_TREES, error_codes, runtime_state, diag_result,
                       fleet_state, set_order, query_vars, snapshot_vars>>

NextRootCause == AnalyzeRootCause

SpecRootCause == InitRootCause /\ [][NextRootCause]_vars

-----------------------------------------------------------------------------
(* Root-cause analysis on fleets whose robots differ in last_seen only.      *)

MaxTimed == 3

\* last_seen in minutes after some instant: spans of 1, 59, 60 and 61 minutes
\* occur among them.
TimedLastSeens == {0, 59, 60, 61}

TimedFleets ==
    LET Robots == [errors : {<<>>, <<"E201">>},
                   last_seen : {None} \cup {Some(t) : t \in TimedLastSeens}]
    IN  {[robots |-> List([i \in 1..Len(rs) |->
                    SitedRobotState(i, "A1", "v2.0", rs[i].errors,
                                    None, rs[i].last_seen)])] :
            rs \in SeqsUpTo(Robots, MaxTimed)}

InitTimed ==
    /\ FAULT_TREES = LoadedFaultTrees
    /\ error_codes = <<>>
    /\ runtime_state = None
    /\ diag_result = NoResult
    /\ fleet_state \in TimedFleets
    /\ fleet_result = NoResult
    /\ set_order \in SetOrders
    /\ NoQuery
    /\ NoSnapshots
    /\ op = [name |-> "none"]

NextTimed == AnalyzeRootCause

SpecTimed == InitTimed /\ [][NextTimed]_vars

-----------------------------------------------------------------------------
(* query_service.py: the retrieval passes of one query and their merge.      *)
(* A search result is a record with id (the chunk id), score (the similarity *)
(* in hundredths) and metadata; the database returns each pass sorted by     *)
(* descending score, without repeated ids.                                   *)

\* merged[:10]
MergeLimit == 10

\* top_k=3 of each error-code search
ErrorTopK == 3

\* The id of chunk i: pipeline.py builds f"{base_id}_{i:04d}".
ChunkId(i) == IF i < 10 THEN "ros_000" \o ToString(i) ELSE "ros_00" \o ToString(i)

Score(x) == x.score

\* Mutant: a result counts as new whenever it has an id.
Unseen_Always(result, merged) == result.id # ""

\* "result_id and result_id not in seen_ids"
Unseen(result, merged) ==
    /\ result.id # ""
    /\ \A m \in 1..Len(merged) : merged[m].id # result.id

\* One of the two loops of lines 163-174 over results, from position k on.
RECURSIVE AddResults(_, _, _)
AddResults(results, k, merged) ==
    IF k > Len(results) THEN merged
    ELSE AddResults(results, k + 1,
             IF Unseen(results[k], merged) THEN Append(merged, results[k])
             ELSE merged)

_merge_and_deduplicate_results(primary_results, secondary_results) ==
    LET merged == AddResults(secondary_results, 1,
                      AddResults(primary_results, 1, <<>>))
    IN  Take(SortedDescBy(merged, Score), MergeLimit)

_extract_sources(results) ==
    List([i \in 1..Len(results) |->
        [id |-> results[i].id,
         category |-> results[i].metadata.category,
         score |-> results[i].score]])

\* query_with_runtime from the two retrieval passes on; failed says that a
\* call inside the try block (embedding, database, language model) raised.
query_with_runtime(primary, secondary, failed) ==
    LET all_results == _merge_and_deduplicate_results(primary, secondary)
        confidence == IF all_results # <<>> THEN all_results[1].score ELSE 0
    IN  IF failed
        THEN [answer |-> "error", sources |-> <<>>, confidence |-> 0,
              result_count |-> 0]
        ELSE [answer |-> "answer",
              sources |-> _extract_sources(all_results),
              confidence |-> confidence,
              result_count |-> Len(all_results),
              all_results |-> all_results]

MaxTopK == 8

MaxErrorSearches == 2

\* Where a pass starts in the corpus, and the score of its best match.
Starts == {1, 4, 7, 10}

TopScores == {60, 90}

\* The answer of one search: n chunks from chunk start on, best match first.
SearchAnswer(start, n, top) ==
    List([j \in 1..n |->
        [id |-> ChunkId(start + j - 1),
         score |-> top - (j - 1),
         metadata |-> [text |-> "text", category |-> "ros_safety"]]])

PrimaryAnswers ==
    {SearchAnswer(1, n, top) : n \in 0..MaxTopK, top \in TopScores}

ErrorAnswers ==
    {SearchAnswer(start, n, top) :
        start \in Starts, n \in {1, ErrorTopK}, top \in TopScores}

\* error_results.extend(more_results) for each error search
RECURSIVE Extend(_)
Extend(answers) ==
    IF answers = <<>> THEN <<>>
    ELSE answers[1] \o Extend(Tail(answers))

InitQuery ==
    /\ FAULT_TREES = LoadedFaultTrees
    /\ error_codes = <<>>
    /\ runtime_state = None
    /\ diag_result = NoResult
    /\ fleet_state = [robots |-> <<>>]
    /\ fleet_result = NoResult
    /\ set_order = SomeOrder
    /\ search_results \in PrimaryAnswers
    /\ error_results \in {Extend(a) : a \in SeqsUpTo(ErrorAnswers, MaxErrorSearches)}
    /\ query_history = <<>>
    /\ query_result = NoResult
    /\ NoSnapshots
    /\ op = [name |-> "none"]

\* await service.query_with_runtime(request), the searches answered
QueryWithRuntime ==
    \E failed \in BOOLEAN :
        /\ op.name = "none"
        /\ query_result' = query_with_runtime(search_results, error_results, failed)
        /\ query_history' =
              IF failed THEN query_history
              ELSE Append(query_history,
                          [sources |-> query_result'.sources,
                           confidence |-> query_result'.confidence])
        /\ op' = [name |-> "query_with_runtime", failed |-> failed]
        /\ UNCHANGED <<FAULT_TREES, error_codes, runtime_state, diag_result,
                       fleet_state, fleet_result, set_order,
                       search_results, error_results, snapshot_vars>>

NextQuery == QueryWithRuntime

SpecQuery == InitQuery /\ [][NextQuery]_vars

-----------------------------------------------------------------------------
(* Properties.  Each is stated over the request and the result of the call,  *)
(* with the counts taken from the request itself.                            *)

\* The robots (by position) of the request that carry error code E.
Carriers(E) ==
    {i \in 1..Len(fleet_state.robots) : E \in Range(fleet_state.robots[i].errors)}

\* The error codes observed in the request's fleet.
ObservedCodes ==
    UNION {Range(fleet_state.robots[i].errors) : i \in 1..Len(fleet_state.robots)}

IssueCodes(issues) == {issues[i].error_code : i \in 1..Len(issues)}

\* The ErrorStatistics the call computed for E.
StatsOf(E) ==
    LET ea == fleet_result.error_analysis
    IN  ea[CHOOSE i \in 1..Len(ea) : ea[i].error_code = E]

\* One of the three systemic triggers holds for E.
MeetsSystemicTrigger(E) ==
    \/ Cardinality(Carriers(E)) >= 3
    \/ FracGE(StatsOf(E).occurrence_rate, <<2, 5>>)
    \/ Cardinality({fleet_state.robots[i].model : i \in Carriers(E)}) > 1

FleetDiagnosed == op.name = "diagnose_fleet" /\ fleet_state.robots # <<>>

InUnitInterval(rate) == rate[2] > 0 /\ 0 <= rate[1] /\ rate[1] <= rate[2]

\* C1: in the result of diagnose_fleet the systemic and the single-unit
\* classification exclude each other: an error carried by exactly one device is
\* not in systemic_issues, and an error meeting a systemic trigger is not in
\* single_unit_issues.
C1_ClassificationsExclusive ==
    FleetDiagnosed =>
        \A E \in ObservedCodes :
            /\ Cardinality(Carriers(E)) = 1
                  => E \notin IssueCodes(fleet_result.systemic_issues)
            /\ MeetsSystemicTrigger(E)
                  => E \notin IssueCodes(fleet_result.single_unit_issues)

\* C2: an observed error is in systemic_issues exactly when it is carried by
\* at least 3 devices, or its occurrence rate is at least 0.4, or it is carried
\* by devices of more than one model; so an error carried by 3 devices of one
\* model and firmware is systemic.
C2_SystemicIffTrigger ==
    FleetDiagnosed =>
        \A E \in ObservedCodes :
            /\ E \in IssueCodes(fleet_result.systemic_issues) <=> MeetsSystemicTrigger(E)
            /\ (\E m \in Models, f \in Firmwares :
                    Cardinality({i \in Carriers(E) :
                        /\ fleet_state.robots[i].model = m
                        /\ fleet_state.robots[i].firmware = f}) >= 3)
                  => E \in IssueCodes(fleet_result.systemic_issues)

\* C2 witness: one error on 3 devices of the same model and firmware is
\* systemic while another observed error is not.
C2_Witness ==
    /\ FleetDiagnosed
    /\ \E E \in ObservedCodes :
          /\ \E m \in Models, f \in Firmwares :
                Cardinality({i \in Carriers(E) :
                    /\ fleet_state.robots[i].model = m
                    /\ fleet_state.robots[i].firmware = f}) >= 3
          /\ E \in IssueCodes(fleet_result.systemic_issues)
    /\ \E E \in ObservedCodes : E \notin IssueCodes(fleet_result.systemic_issues)

\* C3: analyze_specific_error on an error carried by exactly one device
\* returns is_systemic = False and total_affected = 1; on an error carried by
\* no device it returns status "not_found"; it raises in neither case.
C3_OneCarrierNotSystemic ==
    op.name = "analyze_specific_error" =>
        /\ ~Raised(fleet_result)
        /\ Cardinality(Carriers(op.error_code)) = 1
              => /\ fleet_result.is_systemic = FALSE
                 /\ fleet_result.total_affected = 1
        /\ Carriers(op.error_code) = {}
              => fleet_result.status = "not_found"

\* C3 witness: the one carrier stands in a fleet whose other devices differ in
\* model and firmware and carry another error.
C3_Witness ==
    /\ op.name = "analyze_specific_error"
    /\ Cardinality(Carriers(op.error_code)) = 1
    /\ Len(fleet_state.robots) >= 3
    /\ Cardinality({fleet_state.robots[i].model : i \in 1..Len(fleet_state.robots)}) > 1
    /\ Cardinality({fleet_state.robots[i].firmware : i \in 1..Len(fleet_state.robots)}) > 1
    /\ Cardinality(ObservedCodes) > 1
    /\ fleet_result.is_systemic = FALSE

\* C4: diagnose_single_error on a code that is no key of the knowledge base
\* returns status "unknown" with a suggested action and does not raise, with
\* or without a runtime state.
C4_UnknownCode ==
    (op.name = "diagnose_single_error" /\ op.error_code \notin DOMAIN LoadedFaultTrees) =>
        /\ ~Raised(diag_result)
        /\ diag_result.status = "unknown"
        /\ "suggested_action" \in DOMAIN diag_result

\* C4 witness: an unknown code diagnosed with a runtime state that has active
\* topics and parameters.
C4_Witness ==
    /\ op.name = "diagnose_single_error"
    /\ op.error_code \notin DOMAIN LoadedFaultTrees
    /\ runtime_state # None
    /\ runtime_state[1].active_topics # <<>>
    /\ DOMAIN runtime_state[1].parameters # {}
    /\ diag_result.status = "unknown"

\* C5: diagnose_multiple_errors on a non-empty list never raises for codes
\* absent from the knowledge base: it returns a result with primary_error and
\* primary_severity, and every absent code has an "unknown" individual
\* diagnosis.
C5_MultipleNeverRaises ==
    (op.name = "diagnose_multiple_errors" /\ error_codes # <<>>) =>
        /\ ~Raised(diag_result)
        /\ "primary_error" \in DOMAIN diag_result
        /\ "primary_severity" \in DOMAIN diag_result
        /\ \A i \in 1..Len(error_codes) :
              error_codes[i] \notin DOMAIN LoadedFaultTrees
                  => diag_result.individual_diagnoses[i].status = "unknown"

KnownSingleDiagnosis ==
    op.name = "diagnose_single_error" /\ op.error_code \in DOMAIN LoadedFaultTrees

\* C6: every adjusted_probability in the result of diagnose_single_error on a
\* knowledge-base code lies in [0.1, 0.9], with any runtime state or none.
C6_AdjustedInRange ==
    KnownSingleDiagnosis =>
        \A i \in 1..Len(diag_result.possible_causes) :
            /\ diag_result.possible_causes[i].adjusted_probability >= ProbScale \div 10
            /\ diag_result.possible_causes[i].adjusted_probability <= 9 * (ProbScale \div 10)

\* C6 witness: a boost took a cause above 0.9 and the result holds it at 0.9.
C6_Witness ==
    /\ KnownSingleDiagnosis
    /\ \E i \in 1..Len(diag_result.possible_causes) :
          /\ diag_result.possible_causes[i].probability * 12 > 90 * (ProbScale \div 10)
          /\ diag_result.possible_causes[i].adjusted_probability = 9 * (ProbScale \div 10)

\* C7: possible_causes of diagnose_single_error on a knowledge-base code is
\* sorted in descending order of adjusted_probability, with a runtime state and
\* without one.
C7_CausesSortedDescending ==
    KnownSingleDiagnosis =>
        \A i \in 1..(Len(diag_result.possible_causes) - 1) :
            diag_result.possible_causes[i].adjusted_probability
                >= diag_result.possible_causes[i + 1].adjusted_probability

\* The rank of a knowledge-base code's severity under high:3, medium:2, low:1.
RankOfCode(code) ==
    LET sev == LoadedFaultTrees[code].severity IN
    IF sev = "high" THEN 3 ELSE IF sev = "medium" THEN 2 ELSE 1

AllKnownMultiple ==
    /\ op.name = "diagnose_multiple_errors"
    /\ error_codes # <<>>
    /\ \A i \in 1..Len(error_codes) : error_codes[i] \in DOMAIN LoadedFaultTrees

\* C8: for a non-empty list of known codes primary_error is the code of
\* highest severity rank, and among codes of that rank the earliest in the list.
C8_PrimaryIsFirstHighest ==
    AllKnownMultiple =>
        \E i \in 1..Len(error_codes) :
            /\ diag_result.primary_error = error_codes[i]
            /\ \A j \in 1..Len(error_codes) :
                  RankOfCode(error_codes[j]) <= RankOfCode(error_codes[i])
            /\ \A j \in 1..(i - 1) :
                  RankOfCode(error_codes[j]) < RankOfCode(error_codes[i])

\* C8 witness: two different codes share the highest rank, a code of lower rank
\* stands before them, and the earlier of the two is primary.
C8_Witness ==
    /\ AllKnownMultiple
    /\ \E i, j \in 1..Len(error_codes) :
          /\ 1 < i /\ i < j
          /\ error_codes[i] # error_codes[j]
          /\ RankOfCode(error_codes[i]) = RankOfCode(error_codes[j])
          /\ RankOfCode(error_codes[1]) < RankOfCode(error_codes[i])
          /\ diag_result.primary_error = error_codes[i]

\* Every cause of every individual diagnosis of the result.
IndividualCauses ==
    UNION {Range(diag_result.individual_diagnoses[i].possible_causes) :
            i \in {k \in 1..Len(diag_result.individual_diagnoses) :
                    "possible_causes" \in DOMAIN diag_result.individual_diagnoses[k]}}

MultipleDiagnosed ==
    /\ op.name = "diagnose_multiple_errors"
    /\ ~Raised(diag_result)
    /\ diag_result.status = "diagnosed"

\* C9: combined_causes has no two entries with one id, gives each id the
\* maximum adjusted_probability of that id over the individual diagnoses, is
\* sorted descending, and holds at most 5 entries: the 5 highest of the merged
\* causes.
C9_CombinedCauses ==
    MultipleDiagnosed =>
        LET cc == diag_result.combined_causes
            ids == {c.id : c \in IndividualCauses}
            best(id) == CHOOSE p \in {c.adjusted_probability : c \in {x \in IndividualCauses : x.id = id}} :
                            \A c \in IndividualCauses : c.id = id => c.adjusted_probability <= p
        IN  /\ \A i, j \in 1..Len(cc) : cc[i].id = cc[j].id => i = j
            /\ \A i \in 1..Len(cc) :
                  cc[i].id \in ids /\ cc[i].adjusted_probability = best(cc[i].id)
            /\ \A i \in 1..(Len(cc) - 1) :
                  cc[i].adjusted_probability >= cc[i + 1].adjusted_probability
            /\ Len(cc) = Min(5, Cardinality(ids))
            /\ \A id \in ids :
                  id \notin {cc[i].id : i \in 1..Len(cc)}
                      => \A i \in 1..Len(cc) : cc[i].adjusted_probability >= best(id)

\* C9 witness: a code occurs twice, so its causes meet their own ids again, and
\* the list has more than 5 distinct causes, of which 5 are kept.
C9_Witness ==
    /\ MultipleDiagnosed
    /\ \E i, j \in 1..Len(error_codes) :
          i # j /\ error_codes[i] = error_codes[j]
                /\ error_codes[i] \in DOMAIN LoadedFaultTrees
    /\ Cardinality({c.id : c \in IndividualCauses}) > 5
    /\ Len(diag_result.combined_causes) = 5

\* C10: every occurrence rate of the fleet core lies in [0, 1]: the overall
\* error rate and each error's same-model rate in diagnose_fleet, the firmware
\* rate of root-cause analysis, and the firmware rates of
\* analyze_specific_error; on the empty fleet, whose population is 0, the
\* error rate is exactly 0 and nothing is raised.
C10_RatesInUnitInterval ==
    /\ op.name = "diagnose_fleet" =>
          /\ ~Raised(fleet_result)
          /\ InUnitInterval(fleet_result.summary.error_rate)
          /\ fleet_state.robots = <<>> => fleet_result.summary.error_rate = <<0, 1>>
          /\ fleet_state.robots # <<>> =>
                /\ \A i \in 1..Len(fleet_result.error_analysis) :
                      InUnitInterval(fleet_result.error_analysis[i].occurrence_rate)
                /\ \A i \in 1..Len(fleet_result.systemic_issues) :
                      LET rc == fleet_result.systemic_issues[i].root_cause_analysis.possible_root_causes
                      IN  \A k \in 1..Len(rc) :
                            rc[k].type = "firmware" => InUnitInterval(rc[k].occurrence_rate)
    /\ (op.name = "analyze_specific_error" /\ Carriers(op.error_code) # {}) =>
          \A f \in DOMAIN fleet_result.firmware_rates :
              InUnitInterval(fleet_result.firmware_rates[f])

\* C10 witness: a fleet where an error's same-model rate and its firmware rate
\* are both strictly between 0 and 1.
C10_Witness ==
    /\ FleetDiagnosed
    /\ \E i \in 1..Len(fleet_result.systemic_issues) :
          LET issue == fleet_result.systemic_issues[i]
              rc == issue.root_cause_analysis.possible_root_causes
          IN  /\ 0 < issue.occurrence_rate[1]
              /\ issue.occurrence_rate[1] < issue.occurrence_rate[2]
              /\ \E k \in 1..Len(rc) :
                    /\ rc[k].type = "firmware"
                    /\ 0 < rc[k].occurrence_rate[1]
                    /\ rc[k].occurrence_rate[1] < rc[k].occurrence_rate[2]

\* C11: empty input is never an exception.  diagnose_fleet on a fleet with no
\* robots returns a completed response with total_robots, error_rate and
\* unique_errors all 0, no systemic and no single-unit issue and the one
\* explanatory line; _analyze_error_distribution on it returns an empty map;
\* diagnose_multiple_errors and generate_diagnosis_plan on an empty list of
\* codes return status "no_errors".
C11_EmptyInputNeverRaises ==
    /\ (op.name = "diagnose_fleet" /\ fleet_state.robots = <<>>) =>
          /\ ~Raised(fleet_result)
          /\ fleet_result.status = "completed"
          /\ fleet_result.summary.total_robots = 0
          /\ fleet_result.summary.error_rate = <<0, 1>>
          /\ fleet_result.summary.unique_errors = 0
          /\ fleet_result.systemic_issues = <<>>
          /\ fleet_result.single_unit_issues = <<>>
          /\ fleet_result.recommendations = <<[line |-> "fleet_empty"]>>
    /\ (op.name = "_analyze_error_distribution" /\ fleet_state.robots = <<>>) =>
          fleet_result.error_stats = <<>>
    /\ (op.name \in {"diagnose_multiple_errors", "generate_diagnosis_plan"}
            /\ error_codes = <<>>) =>
          /\ ~Raised(diag_result)
          /\ diag_result.status = "no_errors"

\* C11 witness: a diagnosis plan was asked for an empty list of codes, with a
\* runtime state, and the answer is "no_errors".
C11_Witness ==
    /\ op.name = "generate_diagnosis_plan"
    /\ error_codes = <<>>
    /\ runtime_state # None
    /\ diag_result.status = "no_errors"

\* The records of single_unit_issues (by position) for error code E.
SingleUnitRecords(E) ==
    {k \in 1..Len(fleet_result.single_unit_issues) :
        fleet_result.single_unit_issues[k].error_code = E}

\* Every robot of the request carries exactly one code, and no two the same.
EachRobotOwnCode ==
    /\ \A i \in 1..Len(fleet_state.robots) : Len(fleet_state.robots[i].errors) = 1
    /\ \A i, j \in 1..Len(fleet_state.robots) :
          i # j => fleet_state.robots[i].errors # fleet_state.robots[j].errors

\* C12: in the result of diagnose_fleet every error code carried by exactly
\* one robot has exactly one record in single_unit_issues, with the robot_id,
\* model and firmware of that robot, and there are no other records; so a
\* fleet of N robots each carrying one code of its own has exactly N records.
C12_OneRecordPerSingleCarrier ==
    FleetDiagnosed =>
        /\ \A E \in ObservedCodes :
              Cardinality(Carriers(E)) = 1 =>
                  /\ Cardinality(SingleUnitRecords(E)) = 1
                  /\ \A k \in SingleUnitRecords(E) : \A i \in Carriers(E) :
                        LET rec == fleet_result.single_unit_issues[k]
                            robot == fleet_state.robots[i]
                        IN  /\ rec.robot_id = robot.robot_id
                            /\ rec.model = robot.model
                            /\ rec.firmware = robot.firmware
        /\ Len(fleet_result.single_unit_issues)
              = Cardinality({E \in ObservedCodes : Cardinality(Carriers(E)) = 1})
        /\ EachRobotOwnCode =>
              Len(fleet_result.single_unit_issues) = Len(fleet_state.robots)

\* C12 witness: several robots that differ in model, each with one code of its
\* own, and as many single-unit records as robots.
C12_Witness ==
    /\ FleetDiagnosed
    /\ EachRobotOwnCode
    /\ Len(fleet_state.robots) >= 2
    /\ fleet_state.robots[1].model # fleet_state.robots[2].model
    /\ Len(fleet_result.single_unit_issues) = Len(fleet_state.robots)
    /\ fleet_result.single_unit_issues[1].robot_id
          # fleet_result.single_unit_issues[2].robot_id

Affected == Carriers(op.error_code)

\* The candidates the request calls for, from the robots of the request.
FirmwareDetected ==
    Cardinality({fleet_state.robots[i].firmware : i \in Affected}) = 1

ModelDetected ==
    Cardinality({fleet_state.robots[i].model : i \in Affected}) = 1

LocationDetected ==
    Cardinality({fleet_state.robots[i].location :
                    i \in {j \in Affected : fleet_state.robots[j].location # None}}) = 1

TemporalDetected ==
    /\ \A i \in Affected : fleet_state.robots[i].last_seen # None
    /\ \A i, j \in Affected :
          fleet_state.robots[i].last_seen[1] - fleet_state.robots[j].last_seen[1] < 60

FirstDetected ==
    IF FirmwareDetected THEN "firmware"
    ELSE IF ModelDetected THEN "model_specific"
    ELSE IF LocationDetected THEN "environmental"
    ELSE IF TemporalDetected THEN "temporal"
    ELSE "unknown"

RootCauseAnalysed == op.name = "_analyze_root_cause" /\ Affected # {}

\* C14: for a non-empty set of affected robots most_likely_cause is the first
\* candidate in the order firmware, model_specific, environmental, temporal,
\* whatever the confidences; with no candidate it is "unknown" at 0.3.
C14_MostLikelyIsFirstDetected ==
    RootCauseAnalysed =>
        /\ fleet_result.most_likely_cause.type = FirstDetected
        /\ fleet_result.possible_root_causes # <<>> =>
              fleet_result.most_likely_cause = fleet_result.possible_root_causes[1]
        /\ FirstDetected = "unknown" =>
              /\ fleet_result.possible_root_causes = <<>>
              /\ fleet_result.most_likely_cause
                    = [type |-> "unknown", confidence |-> <<3, 10>>]

\* C14 witness: the most likely cause is the environmental candidate (0.6)
\* although the temporal candidate (0.8) is also reported.
C14_Witness ==
    /\ RootCauseAnalysed
    /\ fleet_result.most_likely_cause.type = "environmental"
    /\ \E k \in 1..Len(fleet_result.possible_root_causes) :
          /\ fleet_result.possible_root_causes[k].type = "temporal"
          /\ FracGT(fleet_result.possible_root_causes[k].confidence,
                    fleet_result.most_likely_cause.confidence)

\* The firmware candidates (by position) of the root-cause report.
FirmwareCandidates ==
    {k \in 1..Len(fleet_result.possible_root_causes) :
        fleet_result.possible_root_causes[k].type = "firmware"}

\* The robots of the request (by position) that run firmware f.
OnFirmware(f) ==
    {i \in 1..Len(fleet_state.robots) : fleet_state.robots[i].firmware = f}

\* C15: the root-cause report has a firmware candidate exactly when the
\* affected robots share one firmware version; its confidence is
\* min(0.9, 0.5 + rate * 0.5) for rate = affected robots on that firmware /
\* all robots of the fleet on that firmware, which is 0.9 when every robot on
\* that firmware is affected.
C15_FirmwareCandidate ==
    RootCauseAnalysed =>
        /\ FirmwareDetected <=> FirmwareCandidates # {}
        /\ Cardinality(FirmwareCandidates) <= 1
        /\ \A k \in FirmwareCandidates :
              LET cand == fleet_result.possible_root_causes[k]
                  n == Cardinality(Affected \cap OnFirmware(cand.firmware_version))
                  d == Cardinality(OnFirmware(cand.firmware_version))
                  \* min(0.9, 0.5 + n/d * 0.5) = Min(9 * d, 5 * d + 5 * n) / (10 * d)
              IN  /\ \A i \in Affected :
                        fleet_state.robots[i].firmware = cand.firmware_version
                  /\ cand.confidence[1] * (10 * d)
                        = cand.confidence[2] * Min(9 * d, 5 * d + 5 * n)
                  /\ n = d => cand.confidence = <<9, 10>>

\* C15 witness: a firmware candidate for a firmware that an unaffected robot
\* runs too, at a confidence below 0.9.
C15_Witness ==
    /\ RootCauseAnalysed
    /\ \E k \in FirmwareCandidates :
          LET cand == fleet_result.possible_root_causes[k]
          IN  /\ OnFirmware(cand.firmware_version) \ Affected # {}
              /\ FracGT(<<9, 10>>, cand.confidence)

\* The results of both passes in the order the merge meets them.
BothPasses == search_results \o error_results

\* The first occurrence of each id in both passes.
FirstOccurrences ==
    {BothPasses[k] : k \in {j \in 1..Len(BothPasses) :
        \A i \in 1..(j - 1) : BothPasses[i].id # BothPasses[j].id}}

QueryAnswered == op.name = "query_with_runtime" /\ ~op.failed

\* C16: the merged list has no two results with one id; each result is the
\* first occurrence of its id in primary-then-secondary order, so the primary
\* list's record for an id in both; it is sorted by descending score, has at
\* most 10 results, and no result left out scores higher than one kept; the
\* confidence of the response is the score of its first result, or 0 when it
\* is empty.
C16_MergeRankedTop10 ==
    QueryAnswered =>
        LET merged == query_result.all_results IN
        /\ \A i, j \in 1..Len(merged) : i # j => merged[i].id # merged[j].id
        /\ Range(merged) \subseteq FirstOccurrences
        /\ \A i \in 1..Len(search_results), k \in 1..Len(merged) :
              merged[k].id = search_results[i].id => merged[k] = search_results[i]
        /\ \A i \in 1..(Len(merged) - 1) : merged[i].score >= merged[i + 1].score
        /\ Len(merged) = Min(MergeLimit, Cardinality(FirstOccurrences))
        /\ \A out \in FirstOccurrences \ Range(merged) :
              \A k \in 1..Len(merged) : out.score <= merged[k].score
        /\ query_result.confidence
              = IF merged = <<>> THEN 0 ELSE merged[1].score

\* C16 witness: more than 10 different ids came back, one of them in both
\* passes with a better score in the second, and the best result of all is
\* from the second pass.
C16_Witness ==
    /\ QueryAnswered
    /\ Cardinality(FirstOccurrences) > MergeLimit
    /\ Len(query_result.all_results) = MergeLimit
    /\ \E i \in 1..Len(search_results), j \in 1..Len(error_results) :
          /\ search_results[i].id = error_results[j].id
          /\ search_results[i].score < error_results[j].score
    /\ query_result.all_results[1] \in Range(error_results)
    /\ query_result.all_results[1] \notin Range(search_results)

\* The recommendation lines written for systemic issues, in order.
SystemicLines ==
    LET systemic(rec) == rec.line \in {"firmware", "model_specific", "batch_plan"}
    IN  SelectSeq(fleet_result.recommendations, systemic)

\* The line is the one the issue's most likely cause calls for.
LineFitsIssue(rec, issue) ==
    LET cause == issue.root_cause_analysis.most_likely_cause IN
    CASE cause.type = "firmware" ->
            rec.line = "firmware" /\ rec.firmware_version = cause.firmware_version
      [] cause.type = "model_specific" ->
            rec.line = "model_specific" /\ rec.model = cause.model
      [] OTHER ->
            rec.line = "batch_plan" /\ rec.error_code = issue.error_code

\* C17 as claimed: one recommendation line for every systemic issue, each
\* chosen by the issue's most likely cause.
C17_LinePerSystemicIssue ==
    FleetDiagnosed =>
        /\ Len(SystemicLines) = Len(fleet_result.systemic_issues)
        /\ \A k \in 1..Len(fleet_result.systemic_issues) :
              LineFitsIssue(SystemicLines[k], fleet_result.systemic_issues[k])

\* C17 as amended: one recommendation line for each of the first two systemic
\* issues of the list and none for a later one; the line of the firmware
\* cause names the firmware version, that of the model-specific cause the
\* model, and any other cause gets the batch plan for the error code.
C17_LinePerLeadingIssue ==
    FleetDiagnosed =>
        /\ Len(SystemicLines) = Min(2, Len(fleet_result.systemic_issues))
        /\ \A k \in 1..Len(SystemicLines) :
              LineFitsIssue(SystemicLines[k], fleet_result.systemic_issues[k])

\* C17 witness: three systemic issues and two lines, a firmware line among them.
C17_Witness ==
    /\ FleetDiagnosed
    /\ Len(fleet_result.systemic_issues) = 3
    /\ Len(SystemicLines) = 2
    /\ \E k \in 1..2 : SystemicLines[k].line = "firmware"

\* diagnose_fleet saw a non-empty fleet and classified nothing.
NoIssueFound ==
    /\ FleetDiagnosed
    /\ fleet_state.robots # <<>>
    /\ fleet_result.systemic_issues = <<>>
    /\ fleet_result.single_unit_issues = <<>>

OnlyPositiveLine == fleet_result.recommendations = <<[line |-> "fleet_healthy"]>>

\* C18: a non-empty fleet with no systemic and no single-unit issue gets
\* exactly one recommendation, the positive status line.
C18_NoIssueOnlyPositiveLine == NoIssueFound => OnlyPositiveLine

\* C19: whatever calls of the diagnoser and of the lookup have been answered,
\* in whatever order, every fault tree of the knowledge base equals its value
\* at load time.
C19_KnowledgeBaseUnchanged == FAULT_TREES = LoadedFaultTrees

\* C19 witness: a plan over two codes with a runtime state has been generated
\* and the next request, again with two codes, is waiting.
C19_Witness ==
    /\ op.name = "none"
    /\ diag_result.status = "plan_generated"
    /\ diag_result.recovery_plan # <<>>
    /\ Len(error_codes) = 2
    /\ runtime_state # None

\* The statistics aggregate has answered: the error_analysis of diagnose_fleet
\* or the answer of _analyze_error_distribution itself.
Aggregated ==
    IF FleetDiagnosed THEN fleet_result.error_analysis
    ELSE IF op.name = "_analyze_error_distribution" THEN fleet_result.error_stats
    ELSE <<>>

\* The model of the first robot in fleet order that reports code.
TriggeringModel(code) ==
    fleet_state.robots[CHOOSE i \in Carriers(code) :
                          \A j \in Carriers(code) : i <= j].model

PlacesOfModel(model) ==
    {i \in 1..Len(fleet_state.robots) : fleet_state.robots[i].model = model}

\* C20: every error code observed in the fleet has exactly one entry of the
\* aggregate, whose occurrence_rate is (robots reporting it whose model is M) /
\* (robots of the fleet whose model is M), M being the model of the first
\* robot in fleet order that reports it; when all robots share one model and
\* all report the code, affected_robots is the fleet size and the rate is 1.0.
C20_RateOnTriggeringModel ==
    (FleetDiagnosed \/ op.name = "_analyze_error_distribution") =>
        \A code \in ObservedCodes :
            Carriers(code) # {} =>
                LET entries == {i \in 1..Len(Aggregated) : Aggregated[i].error_code = code}
                    M == TriggeringModel(code)
                IN  /\ Cardinality(entries) = 1
                    /\ \A i \in entries :
                          /\ Aggregated[i].occurrence_rate[1]
                                  * Cardinality(PlacesOfModel(M))
                             = Cardinality(Carriers(code) \cap PlacesOfModel(M))
                                  * Aggregated[i].occurrence_rate[2]
                          /\ Aggregated[i].occurrence_rate[2] > 0
                          /\ (/\ PlacesOfModel(M) = 1..Len(fleet_state.robots)
                              /\ Carriers(code) = 1..Len(fleet_state.robots))
                                => /\ Aggregated[i].affected_robots = Len(fleet_state.robots)
                                   /\ Aggregated[i].occurrence_rate = <<1, 1>>

\* C20 witness: a code reported by robots of two models, whose rate on the
\* model of the first of them is below 1.
C20_Witness ==
    /\ FleetDiagnosed
    /\ \E code \in ObservedCodes :
          /\ \E i, j \in Carriers(code) :
                fleet_state.robots[i].model # fleet_state.robots[j].model
          /\ \E i \in 1..Len(Aggregated) :
                /\ Aggregated[i].error_code = code
                /\ Aggregated[i].occurrence_rate[1] < Aggregated[i].occurrence_rate[2]

\* The severity the thresholds give a rate n/d, in whole numbers.
SeverityOfRate(rate) ==
    IF 2 * rate[1] >= rate[2] THEN "high"
    ELSE IF 5 * rate[1] >= rate[2] THEN "medium"
    ELSE "low"

\* C21: the severity of every entry of the aggregate is the one its
\* occurrence_rate gives (high from 0.5, medium from 0.2 to below 0.5, low
\* below 0.2), and the systemic or single-unit record of the error carries
\* the same severity.
C21_SeverityFromRate ==
    FleetDiagnosed =>
        \A i \in 1..Len(Aggregated) :
            LET stats == Aggregated[i] IN
            /\ stats.severity = SeverityOfRate(stats.occurrence_rate)
            /\ \A k \in 1..Len(fleet_result.systemic_issues) :
                  fleet_result.systemic_issues[k].error_code = stats.error_code
                    => fleet_result.systemic_issues[k].severity = stats.severity
            /\ \A k \in 1..Len(fleet_result.single_unit_issues) :
                  fleet_result.single_unit_issues[k].error_code = stats.error_code
                    => fleet_result.single_unit_issues[k].severity = stats.severity

\* C21 witness: an error at a rate of exactly 0.2, medium, in a single-unit
\* record.
C21_Witness ==
    /\ FleetDiagnosed
    /\ \E i \in 1..Len(Aggregated) :
          /\ Aggregated[i].occurrence_rate = <<1, 5>>
          /\ \E k \in 1..Len(fleet_result.single_unit_issues) :
                /\ fleet_result.single_unit_issues[k].error_code = Aggregated[i].error_code
                /\ fleet_result.single_unit_issues[k].severity = "medium"

\* 10 * min(0.9, 0.3 + 0.7 * n/d) * d, in whole numbers.
TenfoldConfidence(rate) == Min(9 * rate[2], 3 * rate[2] + 7 * rate[1])

\* C22: the confidence of every systemic issue is min(0.9, 0.3 + 0.7 *
\* occurrence_rate); it lies in [0.3, 0.9], and of two systemic issues the one
\* of the lower rate never has the higher confidence.
C22_ConfidenceFromRate ==
    FleetDiagnosed =>
        LET issues == fleet_result.systemic_issues IN
        /\ \A k \in 1..Len(issues) :
              LET c == issues[k].confidence
                  r == issues[k].occurrence_rate
              IN  /\ c[2] > 0 /\ r[2] > 0
                  /\ 10 * c[1] * r[2] = TenfoldConfidence(r) * c[2]
                  /\ 3 * c[2] <= 10 * c[1]
                  /\ 10 * c[1] <= 9 * c[2]
        /\ \A k, m \in 1..Len(issues) :
              issues[k].occurrence_rate[1] * issues[m].occurrence_rate[2]
                    <= issues[m].occurrence_rate[1] * issues[k].occurrence_rate[2]
                => issues[k].confidence[1] * issues[m].confidence[2]
                    <= issues[m].confidence[1] * issues[k].confidence[2]

\* C22 witness: two systemic issues, one at the cap of 0.9 and one at the rate
\* 1/2 with confidence 0.65.
C22_Witness ==
    /\ FleetDiagnosed
    /\ \E k, m \in 1..Len(fleet_result.systemic_issues) :
          /\ fleet_result.systemic_issues[k].occurrence_rate = <<1, 1>>
          /\ fleet_result.systemic_issues[k].confidence = <<9, 10>>
          /\ fleet_result.systemic_issues[m].occurrence_rate = <<1, 2>>
          /\ fleet_result.systemic_issues[m].confidence = <<13, 20>>

\* The rank of a severity in the sort keys.
RankOf(severity) ==
    CASE severity = "high" -> 3
      [] severity = "medium" -> 2
      [] severity = "low" -> 1
      [] OTHER -> 0

\* key(a) >= key(b) for the key (severity rank, affected_robots,
\* occurrence_rate), compared as tuples.
SystemicKeyGE(a, b) ==
    \/ RankOf(a.severity) > RankOf(b.severity)
    \/ /\ RankOf(a.severity) = RankOf(b.severity)
       /\ \/ a.affected_robots > b.affected_robots
          \/ /\ a.affected_robots = b.affected_robots
             /\ a.occurrence_rate[1] * b.occurrence_rate[2]
                    >= b.occurrence_rate[1] * a.occurrence_rate[2]

\* C23: systemic_issues is in descending order of the key (severity rank,
\* affected_robots, occurrence_rate), every entry's key being at least that of
\* the next one, and single_unit_issues is in descending order of the severity
\* rank.
C23_IssuesSorted ==
    FleetDiagnosed =>
        /\ \A k \in 1..(Len(fleet_result.systemic_issues) - 1) :
              SystemicKeyGE(fleet_result.systemic_issues[k],
                            fleet_result.systemic_issues[k + 1])
        /\ \A k \in 1..(Len(fleet_result.single_unit_issues) - 1) :
              RankOf(fleet_result.single_unit_issues[k].severity)
                >= RankOf(fleet_result.single_unit_issues[k + 1].severity)

\* C23 witness: two systemic issues of the same severity that the sort has
\* exchanged, the one on more robots first although its rate is lower.
C23_Witness ==
    /\ FleetDiagnosed
    /\ Len(fleet_result.systemic_issues) = 2
    /\ Len(fleet_result.error_analysis) = 2
    /\ fleet_result.systemic_issues[1].error_code = fleet_result.error_analysis[2].error_code
    /\ fleet_result.systemic_issues[1].severity = fleet_result.systemic_issues[2].severity
    /\ fleet_result.systemic_issues[1].affected_robots
          > fleet_result.systemic_issues[2].affected_robots
    /\ FracGT(fleet_result.systemic_issues[2].occurrence_rate,
              fleet_result.systemic_issues[1].occurrence_rate)

\* The temporal candidates of the analysis, by position.
TemporalCandidates ==
    {k \in 1..Len(fleet_result.possible_root_causes) :
        fleet_result.possible_root_causes[k].type = "temporal"}

\* max(last_seen) - min(last_seen) over the affected robots, all of which
\* report a timestamp.
SpanOfAffected ==
    LET seen == {fleet_state.robots[i].last_seen[1] : i \in Affected}
    IN  (CHOOSE t \in seen : \A u \in seen : u <= t)
        - (CHOOSE t \in seen : \A u \in seen : t <= u)

AllAffectedSeen == \A i \in Affected : fleet_state.robots[i].last_seen # None

\* C24: the analysis has a temporal candidate, of confidence 0.8, exactly
\* when every affected robot reports last_seen and the span from the earliest
\* to the latest is below one hour; a span of one hour or a robot without
\* last_seen gives none.
C24_TemporalCandidate ==
    RootCauseAnalysed =>
        /\ (TemporalCandidates # {}) <=> (AllAffectedSeen /\ SpanOfAffected < 60)
        /\ Cardinality(TemporalCandidates) <= 1
        /\ \A k \in TemporalCandidates :
              fleet_result.possible_root_causes[k].confidence = <<4, 5>>

\* C24 witness: two affected robots seen 59 minutes apart, and the temporal
\* candidate they give.
C24_Witness ==
    /\ RootCauseAnalysed
    /\ Cardinality(Affected) >= 2
    /\ AllAffectedSeen
    /\ SpanOfAffected = 59
    /\ TemporalCandidates # {}

\* diagnose_multiple_errors has answered with a diagnosis.
ManyDiagnosed ==
    /\ op.name = "diagnose_multiple_errors"
    /\ ~Raised(diag_result)
    /\ diag_result.status = "diagnosed"

\* The causes of the individual diagnoses from the i-th on: all of them, or
\* of each diagnosis the first two only.
RECURSIVE CausePool(_, _, _)
CausePool(ind, i, first_two) ==
    IF i > Len(ind) THEN <<>>
    ELSE (IF "possible_causes" \in DOMAIN ind[i]
          THEN LET n == Len(ind[i].possible_causes) IN
               SubSeq(ind[i].possible_causes, 1, IF first_two THEN Min(2, n) ELSE n)
          ELSE <<>>)
         \o CausePool(ind, i + 1, first_two)

\* listed are the Min(3, Len(pool)) entries of pool with the highest adjusted
\* probability, highest first: the k-th line carries the k-th highest value and
\* the description of a pool entry with that value.
TopThreeOf(listed, pool) ==
    /\ Len(listed) = Min(3, Len(pool))
    /\ \A k \in 1..Len(listed) :
          LET v == listed[k].adjusted_probability IN
          /\ Cardinality({j \in 1..Len(pool) : pool[j].adjusted_probability > v}) < k
          /\ Cardinality({j \in 1..Len(pool) : pool[j].adjusted_probability >= v}) >= k
          /\ \E j \in 1..Len(pool) :
                /\ pool[j].adjusted_probability = v
                /\ pool[j].description = listed[k].description

\* C25 as claimed: when the diagnosed codes have at least 3 causes together,
\* the summary lists exactly 3 causes, the 3 of the highest adjusted
\* probability among all causes of the diagnosed codes.
C25_SummaryTopThreeOfAll ==
    ManyDiagnosed =>
        LET pool == CausePool(diag_result.individual_diagnoses, 1, FALSE) IN
        Len(pool) >= 3 =>
            /\ Len(diag_result.summary.causes) = 3
            /\ TopThreeOf(diag_result.summary.causes, pool)

\* C25 as amended: the summary draws on the first two causes of each diagnosed
\* code; when these are at least 3 together it lists exactly 3 causes, the 3
\* of the highest adjusted probability among them.
C25_SummaryTopThreeOfLeading ==
    ManyDiagnosed =>
        LET pool == CausePool(diag_result.individual_diagnoses, 1, TRUE) IN
        Len(pool) >= 3 =>
            /\ Len(diag_result.summary.causes) = 3
            /\ TopThreeOf(diag_result.summary.causes, pool)

\* C25 witness: two diagnosed codes with a runtime state, four leading causes,
\* three of them listed, and a cause of higher probability than the last one
\* listed that the summary leaves out because it is no leading cause.
C25_Witness ==
    /\ ManyDiagnosed
    /\ Len(error_codes) = 2
    /\ Len(CausePool(diag_result.individual_diagnoses, 1, TRUE)) = 4
    /\ Len(diag_result.summary.causes) = 3
    /\ LET pool == CausePool(diag_result.individual_diagnoses, 1, FALSE) IN
       \E j \in 1..Len(pool) :
          pool[j].adjusted_probability > diag_result.summary.causes[3].adjusted_probability
          /\ \A k \in 1..3 : pool[j].description # diag_result.summary.causes[k].description

\* The error codes of the systemic and of the single-unit records.
SystemicCodes ==
    {fleet_result.systemic_issues[k].error_code :
        k \in 1..Len(fleet_result.systemic_issues)}

SingleUnitCodes ==
    {fleet_result.single_unit_issues[k].error_code :
        k \in 1..Len(fleet_result.single_unit_issues)}

\* C26: diagnose_fleet on a non-empty fleet classifies every error code that
\* a robot carries: the code is in systemic_issues or in single_unit_issues.
C26_EveryObservedErrorClassified ==
    FleetDiagnosed => ObservedCodes \subseteq (SystemicCodes \cup SingleUnitCodes)

\* C27: for an error code carried by a robot of the fleet,
\* analyze_specific_error says is_systemic exactly when diagnose_fleet on the
\* same fleet has the code in systemic_issues.
C27_VerdictsAgree ==
    (op.name = "analyze_diagnosed_error" /\ Carriers(op.error_code) # {}) =>
        (fleet_result.analysis.is_systemic
            <=> \E k \in 1..Len(fleet_result.diagnosis.systemic_issues) :
                    fleet_result.diagnosis.systemic_issues[k].error_code = op.error_code)

\* C28: the error codes diagnose_fleet classifies systemic, and those it
\* classifies single-unit, are the same for a fleet and for the same robots
\* listed in any other order.
C28_ClassesKeepUnderShuffle ==
    op.name = "diagnose_shuffled" =>
        /\ IssueCodes(fleet_result.listed.systemic_issues)
             = IssueCodes(fleet_result.shuffled.systemic_issues)
        /\ IssueCodes(fleet_result.listed.single_unit_issues)
             = IssueCodes(fleet_result.shuffled.single_unit_issues)

\* The model of the first robot carrying E when the robots are listed in order.
FirstCarrierModel(E, order) ==
    fleet_state.robots[order[CHOOSE i \in DOMAIN order :
        /\ order[i] \in Carriers(E)
        /\ \A j \in 1..(i - 1) : order[j] \notin Carriers(E)]].model

\* A shuffle that puts a carrier of another model first, of a code that is
\* systemic, next to a code that is a single-unit issue.
C28_Witness ==
    /\ op.name = "diagnose_shuffled"
    /\ \E E \in IssueCodes(fleet_result.listed.systemic_issues) :
          /\ Cardinality(Carriers(E)) = 2
          /\ FirstCarrierModel(E, op.order) # TriggeringModel(E)
    /\ IssueCodes(fleet_result.listed.single_unit_issues) # {}
    /\ IssueCodes(fleet_result.listed.single_unit_issues)
         # IssueCodes(fleet_result.listed.systemic_issues)

\* What an answer of diagnose_fleet reports for E: rate and severity of the
\* aggregate, and rate, severity and confidence of its systemic issue.
ReportedFor(result, E) ==
    [aggregate |-> {<<result.error_analysis[i].occurrence_rate,
                      result.error_analysis[i].severity>> :
                        i \in {k \in 1..Len(result.error_analysis) :
                                  result.error_analysis[k].error_code = E}},
     systemic |-> {<<result.systemic_issues[i].occurrence_rate,
                     result.systemic_issues[i].severity,
                     result.systemic_issues[i].confidence>> :
                        i \in {k \in 1..Len(result.systemic_issues) :
                                  result.systemic_issues[k].error_code = E}}]

\* C29 as stated: for every error code, occurrence_rate, severity and systemic
\* confidence are the same for a fleet and for the same robots listed in any
\* other order.
C29_ValuesKeepUnderShuffle ==
    op.name = "diagnose_shuffled" =>
        \A E \in FleetCodes :
            ReportedFor(fleet_result.listed, E) = ReportedFor(fleet_result.shuffled, E)

\* C29, amended: occurrence_rate, severity and systemic confidence of E are
\* the same for a fleet and for the same robots listed in another order
\* whenever the first robot carrying E has the same model in both orders.
C29_ValuesKeepWhileFirstCarrierModelKept ==
    op.name = "diagnose_shuffled" =>
        \A E \in ObservedCodes :
            FirstCarrierModel(E, op.order) = TriggeringModel(E) =>
                ReportedFor(fleet_result.listed, E) = ReportedFor(fleet_result.shuffled, E)

\* Carriers of two models, listed with another carrier of the same model
\* first and another robot first in the fleet; the code is systemic at a rate
\* below 1.
C29_Witness ==
    /\ op.name = "diagnose_shuffled"
    /\ \E E \in ObservedCodes :
          /\ \E i, j \in Carriers(E) :
                fleet_state.robots[i].model # fleet_state.robots[j].model
          /\ FirstCarrierModel(E, op.order) = TriggeringModel(E)
          /\ op.order[1] # 1
          /\ fleet_state.robots[op.order[1]].model # fleet_state.robots[1].model
          /\ \E x \in ReportedFor(fleet_result.shuffled, E).systemic :
                x[1][1] < x[1][2] /\ x[3] # <<9, 10>>

\* C30: whatever the interleaving of background tasks, reads and clears, the
\* store never holds more than max_history snapshots; and a task that stores
\* a snapshot into a full store removes exactly the oldest one and leaves the
\* new snapshot last.
C30_StoreBoundedOldestEvicted ==
    /\ [](Len(snapshot_store) <= max_history)
    /\ [][(op'.name = "process_snapshot_async" /\ Len(snapshot_store) = max_history)
            => /\ Len(snapshot_store') = max_history
               /\ SubSeq(snapshot_store', 1, max_history - 1) = Tail(snapshot_store)
               /\ snapshot_store'[max_history] = op'.snapshot
               /\ op'.popped = Some(snapshot_store[1])]_vars

\* A task has stored another snapshot into a full store while a task still
\* waits: the oldest snapshot is gone, the new one is last.
C30_Witness ==
    /\ op.name = "process_snapshot_async"
    /\ op.popped # None
    /\ op.popped[1] # op.snapshot
    /\ Len(snapshot_store) = max_history
    /\ snapshot_store[max_history] = op.snapshot
    /\ \E k \in 1..Len(background_tasks) : background_tasks[k].tasks # <<>>

====
